---- MODULE Spec2Model ----
(***************************************************************************)
(* Model of the acquisition pipeline of defornicate-epstein-files:         *)
(*   pattern.ExpandPattern        (src/internal/pattern/pattern.go)        *)
(*   downloader.Download          (src/internal/pattern/pattern.go)        *)
(*   config.Config.GetInputs      (src/internal/pattern/pattern.go)        *)
(*   pathutil.ResolveDocumentPath (src/unnamed/part_003)                   *)
(*   extractor.ExtractText,                                                *)
(*   extractor.SaveExtractedText  (src/internal/extractor/extractor.go)    *)
(*   main.run                     (src/unnamed/part_000)                   *)
(* Strings are sequences of one-character strings, so that the string      *)
(* functions of the code (regexp match, Split, ReplaceAll, filepath.Ext,   *)
(* filepath.Join) are computed and not assumed.                            *)
(***************************************************************************)
EXTENDS Integers, Sequences, FiniteSets, TLC

VARIABLES
  ep,        \* one ExpandPattern call: its argument, position, locals, result
  files,     \* the filesystem's regular files: path -> content
  dirs,      \* the filesystem's directories: set of paths
  call,      \* the last Download call: its inputs, its result, what it did
  ncalls,    \* number of Download calls made so far
  rn         \* one execution of run(): its inputs, position, locals, outputs

vars == <<ep, files, dirs, call, ncalls, rn>>

----------------------------------------------------------------------------
(* Bounds of the model.                                                    *)

\* ExpandPattern's loop is followed for at most this many appended results.
MaxResults == 12
\* Download calls made one after the other in SpecDl.
MaxCalls == 2
\* Largest number of command-line arguments of a run.
MaxArgs == 2

\* Largest int of the 386 release builds (strconv.Atoi's range, i++ wraps).
MaxInt == 2147483647
MinInt == -MaxInt - 1

----------------------------------------------------------------------------
(* Strings.                                                                *)

\* The strings: sequences of characters.  The functions on strings are
\* TLA+ functions, applied to values.
Str == Seq(STRING)

Digits == <<"0", "1", "2", "3", "4", "5", "6", "7", "8", "9">>

IsDigit[c \in STRING] == \E k \in 1..10 : Digits[k] = c

DigitVal[c \in STRING] == (CHOOSE k \in 1..10 : Digits[k] = c) - 1

Max(a, b) == IF a >= b THEN a ELSE b

\* s[a..b], empty when a > b.
Sub(s, a, b) == IF a > b THEN <<>> ELSE SubSeq(s, a, b)

\* strings.HasPrefix
HasPrefix[s \in Str, p \in Str] == Len(s) >= Len(p) /\ Sub(s, 1, Len(p)) = p

\* strings.HasSuffix
HasSuffix[s \in Str, p \in Str] == Len(s) >= Len(p) /\ Sub(s, Len(s) - Len(p) + 1, Len(s)) = p

\* strings.TrimSuffix
TrimSuffix[s \in Str, p \in Str] == IF HasSuffix[s, p] THEN Sub(s, 1, Len(s) - Len(p)) ELSE s

\* strings.Index for a one-character needle: its first position, 0 if none.
IndexOf[s \in Str, c \in STRING] ==
  IF \E k \in 1..Len(s) : s[k] = c
  THEN CHOOSE k \in 1..Len(s) : s[k] = c /\ \A j \in 1..(k - 1) : s[j] # c
  ELSE 0

\* The position of the last c in s, 0 if none.
LastIndexOf[s \in Str, c \in STRING] ==
  IF \E k \in 1..Len(s) : s[k] = c
  THEN CHOOSE k \in 1..Len(s) : s[k] = c /\ \A j \in (k + 1)..Len(s) : s[j] # c
  ELSE 0

\* strings.Contains for a one-character needle.
Contains[s \in Str, c \in STRING] == IndexOf[s, c] # 0

\* strings.ReplaceAll(s, old, new) from position p on: leftmost matches,
\* non-overlapping (old is not empty).
ReplaceFrom[s \in Str, old \in Str, new \in Str, p \in Int] ==
  IF p > Len(s) THEN <<>>
  ELSE IF p + Len(old) - 1 <= Len(s) /\ Sub(s, p, p + Len(old) - 1) = old
       THEN new \o ReplaceFrom[s, old, new, p + Len(old)]
       ELSE <<s[p]>> \o ReplaceFrom[s, old, new, p + 1]

ReplaceAll[s \in Str, old \in Str, new \in Str] == ReplaceFrom[s, old, new, 1]

LowerLetters ==
  <<"a", "b", "c", "d", "e", "f", "g", "h", "i", "j", "k", "l", "m",
    "n", "o", "p", "q", "r", "s", "t", "u", "v", "w", "x", "y", "z">>

UpperLetters ==
  <<"A", "B", "C", "D", "E", "F", "G", "H", "I", "J", "K", "L", "M",
    "N", "O", "P", "Q", "R", "S", "T", "U", "V", "W", "X", "Y", "Z">>

LowerOf[c \in STRING] ==
  IF \E k \in 1..26 : UpperLetters[k] = c
  THEN LowerLetters[CHOOSE k \in 1..26 : UpperLetters[k] = c]
  ELSE c

UpperOf[c \in STRING] ==
  IF \E k \in 1..26 : LowerLetters[k] = c
  THEN UpperLetters[CHOOSE k \in 1..26 : LowerLetters[k] = c]
  ELSE c

\* strings.ToLower, strings.ToUpper 
ToLower[s \in Str] == [k \in 1..Len(s) |-> LowerOf[s[k]]]
ToUpper[s \in Str] == [k \in 1..Len(s) |-> UpperOf[s[k]]]

----------------------------------------------------------------------------
(* pattern.ExpandPattern                                                   *)

\* The last position of the longest run of digits of s that starts at
\* position from (from - 1 when s[from] is no digit).
DigitRunEnd[s \in Str, from \in Int] ==
  CHOOSE j \in (from - 1)..Len(s) :
    /\ \A k \in from..j : IsDigit[s[k]]
    /\ (j = Len(s) \/ ~IsDigit[s[j + 1]])

\* Whether \{(\d+)[-:](\d+)\} matches s at position p, and the match.
MatchAt[s \in Str, p \in Int] ==
  LET e1 == DigitRunEnd[s, p + 1]
      e2 == DigitRunEnd[s, e1 + 2]
  IN  IF /\ p <= Len(s) /\ s[p] = "{"
         /\ e1 >= p + 1
         /\ e1 + 1 <= Len(s) /\ s[e1 + 1] \in {"-", ":"}
         /\ e2 >= e1 + 2
         /\ e2 + 1 <= Len(s) /\ s[e2 + 1] = "}"
      THEN [ok |-> TRUE, from |-> p, to |-> e2 + 1,
            startStr |-> Sub(s, p + 1, e1), endStr |-> Sub(s, e1 + 2, e2)]
      ELSE [ok |-> FALSE]

\* re.FindStringSubmatch: the leftmost match, or no match.
FindStringSubmatch[s \in Str] ==
  LET P == {p \in 1..Len(s) : MatchAt[s, p].ok}
  IN  IF P = {} THEN [ok |-> FALSE]
      ELSE MatchAt[s, CHOOSE p \in P : \A q \in P : p <= q]

ReplaceMatchesFrom[s \in Str, repl \in Str, p \in Int] ==
  IF p > Len(s) THEN <<>>
  ELSE IF MatchAt[s, p].ok
       THEN repl \o ReplaceMatchesFrom[s, repl, MatchAt[s, p].to + 1]
       ELSE <<s[p]>> \o ReplaceMatchesFrom[s, repl, p + 1]

\* re.ReplaceAllString(pattern, numStr): every match of the regexp in the
\* pattern is replaced (numStr holds no '$').
ReplaceAllString[s \in Str, repl \in Str] == ReplaceMatchesFrom[s, repl, 1]

\* strconv.Atoi on a string of digits: the value, or a range error when
\* it exceeds MaxInt.
AtoiFrom[s \in Str, k \in Int, acc \in Int] ==
  IF k > Len(s) THEN [ok |-> TRUE, val |-> acc]
  ELSE LET d == DigitVal[s[k]]
       IN  IF acc > (MaxInt - d) \div 10 THEN [ok |-> FALSE, val |-> 0]
           ELSE AtoiFrom[s, k + 1, acc * 10 + d]

Atoi[s \in Str] == AtoiFrom[s, 1, 0]

\* The decimal digits of n >= 0.
ItoaNat[n \in Int] ==
  IF n < 10 THEN <<Digits[n + 1]>>
  ELSE ItoaNat[n \div 10] \o <<Digits[(n % 10) + 1]>>

Zeros[n \in Int] == IF n <= 0 THEN <<>> ELSE <<"0">> \o Zeros[n - 1]

\* The decimal digits of |n|.
AbsDigits[n \in Int] ==
  IF n >= 0 THEN ItoaNat[n]
  ELSE IF n = MinInt
       THEN LET m == ItoaNat[MaxInt]     \* |MinInt| = MaxInt + 1, no carry
            IN  [m EXCEPT ![Len(m)] = Digits[DigitVal[m[Len(m)]] + 2]]
       ELSE ItoaNat[-n]

\* fmt.Sprintf("%0*d", width, n): zero-padded to width, the sign counted.
SprintfPad[width \in Int, n \in Int] ==
  LET d == AbsDigits[n]
  IN  IF n >= 0 THEN Zeros[width - Len(d)] \o d
      ELSE <<"-">> \o Zeros[width - 1 - Len(d)] \o d

\* i++ on a machine int.
IntInc[i \in Int] == IF i = MaxInt THEN MinInt ELSE i + 1

\* The state of a call of ExpandPattern(pattern) about to run.
EpCall(pattern) ==
  [pattern |-> pattern, pc |-> "call", i |-> 0, end |-> 0, paddingLen |-> 0,
   results |-> <<>>, err |-> "nil"]

\* ExpandPatternEnter that returns an empty list, not the pattern, when
\* no marker is found.
ExpandPatternEnter_NoMatchIsEmpty(e) ==
  LET m == FindStringSubmatch[e.pattern]
  IN  IF ~m.ok
      THEN [e EXCEPT !.pc = "done", !.results = <<>>]
      ELSE LET a == Atoi[m.startStr]
               b == Atoi[m.endStr]
           IN  IF ~a.ok \/ ~b.ok
               THEN [e EXCEPT !.pc = "done", !.err = "invalid pattern numbers"]
               ELSE IF a.val > b.val
                    THEN [e EXCEPT !.pc = "done", !.err = "start must be <= end"]
                    ELSE [e EXCEPT !.pc = "loop", !.i = a.val, !.end = b.val,
                                   !.paddingLen = Max(Len(m.startStr), Len(m.endStr))]

\* ExpandPatternEnter that tests the error of the start number only (the
\* one its message reports) and goes on with the value strconv.Atoi
\* returns beside a range error, the largest int.
ExpandPatternEnter_IgnoresEndError(e) ==
  LET m == FindStringSubmatch[e.pattern]
  IN  IF ~m.ok
      THEN [e EXCEPT !.pc = "done", !.results = <<e.pattern>>]
      ELSE LET a == Atoi[m.startStr]
               b == Atoi[m.endStr]
               end == IF b.ok THEN b.val ELSE MaxInt
           IN  IF ~a.ok
               THEN [e EXCEPT !.pc = "done", !.err = "invalid pattern numbers"]
               ELSE IF a.val > end
                    THEN [e EXCEPT !.pc = "done", !.err = "start must be <= end"]
                    ELSE [e EXCEPT !.pc = "loop", !.i = a.val, !.end = end,
                                   !.paddingLen = Max(Len(m.startStr), Len(m.endStr))]

\* Lines 16-39: match, parse, validate; returns or enters the loop.
ExpandPatternEnter(e) ==
  LET m == FindStringSubmatch[e.pattern]
  IN  IF ~m.ok
      THEN [e EXCEPT !.pc = "done", !.results = <<e.pattern>>]
      ELSE LET a == Atoi[m.startStr]
               b == Atoi[m.endStr]
           IN  IF ~a.ok \/ ~b.ok
               THEN [e EXCEPT !.pc = "done", !.err = "invalid pattern numbers"]
               ELSE IF a.val > b.val
                    THEN [e EXCEPT !.pc = "done", !.err = "start must be <= end"]
                    ELSE [e EXCEPT !.pc = "loop", !.i = a.val, !.end = b.val,
                                   !.paddingLen = Max(Len(m.startStr), Len(m.endStr))]

\* Lines 42-48: one iteration of the loop, its i++ included.
ExpandPatternBody(e) ==
  [e EXCEPT !.results = Append(e.results,
                               ReplaceAllString[e.pattern, SprintfPad[e.paddingLen, e.i]]),
            !.i = IntInc[e.i]]

\* Line 42's condition fails: line 50 returns the results.
ExpandPatternExit(e) == [e EXCEPT !.pc = "done"]

----------------------------------------------------------------------------
(* Paths (package path/filepath, with '/' as the separator).               *)

\* strings.Split(s, "/"): the elements between the separators, empty ones
\* included; cur is the element being read.
SplitFrom[s \in Str, p \in Int, cur \in Str] ==
  IF p > Len(s) THEN <<cur>>
  ELSE IF s[p] = "/" THEN <<cur>> \o SplitFrom[s, p + 1, <<>>]
       ELSE SplitFrom[s, p + 1, Append(cur, s[p])]

Split[s \in Str] == SplitFrom[s, 1, <<>>]

JoinSlash[elems \in Seq(Str)] ==
  IF Len(elems) = 0 THEN <<>>
  ELSE IF Len(elems) = 1 THEN elems[1]
       ELSE elems[1] \o <<"/">> \o JoinSlash[Tail(elems)]

DotDot == <<".", ".">>

\* filepath.Clean's pass over the elements: empty and "." elements are
\* dropped, ".." removes the element before it (kept at the start of a
\* relative path, dropped at the root).
CleanElems[elems \in Seq(Str), out \in Seq(Str), rooted \in BOOLEAN] ==
  IF Len(elems) = 0 THEN out
  ELSE LET e == Head(elems)
           rest == Tail(elems)
       IN  IF e = <<>> \/ e = <<".">> THEN CleanElems[rest, out, rooted]
           ELSE IF e = DotDot
                THEN IF Len(out) > 0 /\ out[Len(out)] # DotDot
                     THEN CleanElems[rest, Sub(out, 1, Len(out) - 1), rooted]
                     ELSE IF rooted THEN CleanElems[rest, out, rooted]
                          ELSE CleanElems[rest, Append(out, e), rooted]
                ELSE CleanElems[rest, Append(out, e), rooted]

\* filepath.IsAbs
IsAbs[path \in Str] == Len(path) > 0 /\ path[1] = "/"

\* filepath.Clean
Clean[path \in Str] ==
  LET body == JoinSlash[CleanElems[Split[path], <<>>, IsAbs[path]]]
  IN  IF IsAbs[path] THEN <<"/">> \o body
      ELSE IF body = <<>> THEN <<".">> ELSE body

\* filepath.Join(a, b): empty elements are ignored, the result is Cleaned,
\* and is empty when both are empty.
Join[a \in Str, b \in Str] ==
  IF a = <<>> /\ b = <<>> THEN <<>>
  ELSE IF a = <<>> THEN Clean[b]
       ELSE IF b = <<>> THEN Clean[a]
            ELSE Clean[a \o <<"/">> \o b]

\* filepath.Ext: from the last dot of the last element on, empty if none.
Ext[path \in Str] ==
  LET k == LastIndexOf[path, "."]
  IN  IF k > LastIndexOf[path, "/"] THEN Sub(path, k, Len(path)) ELSE <<>>

\* filepath.Dir of a Cleaned relative path: "." when it has one element.
Dir[path \in Str] ==
  LET k == LastIndexOf[path, "/"]
  IN  IF k = 0 THEN <<".">> ELSE IF k = 1 THEN <<"/">> ELSE Sub(path, 1, k - 1)

----------------------------------------------------------------------------
(* The filesystem: files (path -> content) and dirs (set of paths).        *)

\* path and the directories above it ("." and "/" left out).
Ancestors[path \in Str] ==
  IF path = <<".">> \/ path = <<"/">> \/ path = <<>> THEN {}
  ELSE {path} \cup Ancestors[Dir[path]]

\* os.Stat(path) returns no error.
StatOk(f, d, path) == path \in DOMAIN f \/ path \in d \/ path = <<".">>

\* f with the file at path holding content.
WriteFile(f, path, content) == (path :> content) @@ f

\* f without the file at path.
RemoveFile(f, path) == [q \in DOMAIN f \ {path} |-> f[q]]

----------------------------------------------------------------------------
(* downloader: GetFileType, GetDocumentsDir, extractFilenameFromURL        *)

S_pdf == <<"p", "d", "f">>
S_doc == <<"d", "o", "c">>
S_docx == <<"d", "o", "c", "x">>
S_rtf == <<"r", "t", "f">>
S_txt == <<"t", "x", "t">>
S_odt == <<"o", "d", "t">>
S_other == <<"o", "t", "h", "e", "r">>
S_documents == <<"d", "o", "c", "u", "m", "e", "n", "t", "s">>
S_pdfs == <<"p", "d", "f", "s">>
S_downloaded == <<"d", "o", "w", "n", "l", "o", "a", "d", "e", "d">>

\* The extension table of both GetFileType functions.
ExtTypes == {S_pdf, S_doc, S_docx, S_rtf, S_txt, S_odt}

\* downloader.GetFileType: the table entry, "other" when there is none.
GetFileType[filename \in Str] ==
  LET ext == ToLower[Ext[filename]]
  IN  IF \E t \in ExtTypes : ext = <<".">> \o t
      THEN Sub(ext, 2, Len(ext))
      ELSE S_other

\* downloader.GetDocumentsDir
GetDocumentsDir[fileType \in Str] == Join[S_documents, fileType]

\* The characters extractFilenameFromURL replaces by "_" one by one.
InvalidChars == <<"<", ">", ":", "\"", "|", "?", "*", "\\">>

ReplaceChars[s \in Str, chars \in Str, k \in Int] ==
  IF k > Len(chars) THEN s
  ELSE ReplaceChars[ReplaceAll[s, <<chars[k]>>, <<"_">>], chars, k + 1]

extractFilenameFromURL[url \in Str] ==
  LET q == IndexOf[url, "?"]
      u == IF q # 0 THEN Sub(url, 1, q - 1) ELSE url
      parts == Split[u]
      f0 == parts[Len(parts)]
      f1 == ReplaceAll[f0, <<"%", "2", "0">>, <<"_">>]
      f2 == ReplaceAll[f1, <<"%", "2", "F">>, <<"_">>]
      f3 == ReplaceAll[f2, <<"%">>, <<"_">>]
  IN  ReplaceChars[f3, InvalidChars, 1]

----------------------------------------------------------------------------
(* downloader.Download                                                     *)

\* sha256.Sum256: a digest that is equal exactly for equal contents (no
\* collision among the modelled contents).
Sum256(content) == [sha256 |-> content]

\* http.StatusOK
StatusOK == 200

S_http == <<"h", "t", "t", "p", ":", "/", "/">>
S_https == <<"h", "t", "t", "p", "s", ":", "/", "/">>

Url_a == S_http \o <<"h", "/", "a", ".", "p", "d", "f">>
Url_aq == S_http \o <<"h", "/", "a", ".", "p", "d", "f", "?", "v">>
Url_none == S_https \o <<"h", "/">>
Url_b == S_http \o <<"h", "/", "b", ".", "t", "x", "t">>

\* The URLs Download is called with.
Urls == {Url_a, Url_aq, Url_none, Url_b}

\* The URLs a pattern of run's config expands to.
Url_1 == S_http \o <<"h", "/", "1", ".", "p", "d", "f">>
Url_2 == S_http \o <<"h", "/", "2", ".", "p", "d", "f">>

\* The URLs Download is called with before ResolveDocumentPath: a PDF, a
\* text file, a name without extension.
Url_doc == S_http \o <<"h", "/", "d", "o", "c", ".", "p", "d", "f">>
Url_n == S_http \o <<"h", "/", "n", ".", "t", "x", "t">>
Url_c == S_http \o <<"h", "/", "c">>

ResolveUrls == {Url_doc, Url_n, Url_c}

AllUrls == Urls \cup {Url_1, Url_2} \cup ResolveUrls

\* Lines 188-200 and 210-222: the name, type and target path of a URL.
TargetOfUrl(url) ==
  LET f0 == extractFilenameFromURL[url]
      f1 == IF f0 = <<>> THEN S_downloaded ELSE f0
      isDefault == (f1 = S_downloaded)
      fileType == IF isDefault THEN S_pdf ELSE GetFileType[f1]
      filename == IF isDefault THEN S_downloaded \o <<".">> \o S_pdf ELSE f1
      typeDir == GetDocumentsDir[fileType]
      ext == Ext[filename]
      baseName == TrimSuffix[TrimSuffix[filename, ext], ToUpper[ext]]
      docSubDir == Join[typeDir, baseName]
  IN  [filename |-> filename, fileType |-> fileType, typeDir |-> typeDir,
       baseName |-> baseName, docSubDir |-> docSubDir,
       filePath |-> Join[docSubDir, filename]]

\* TargetOfUrl, computed once for each URL of the model.
TargetTable == [u \in AllUrls |-> TargetOfUrl(u)]

TargetOf(url) == TargetTable[url]

\* os.MkdirAll(path) succeeds unless a regular file is in the way (or the
\* environment refuses, which the caller's fault input decides).
MkdirAllOk(f, path) == Ancestors[path] \cap DOMAIN f = {}

\* os.MkdirAll(path): path and the missing directories above it.
MkdirAll(d, path) == d \cup Ancestors[path]

\* What a Download returns: the path, the error, the filesystem it leaves
\* and the filesystem operations it performed, in order.
DlReturn(path, err, f, d, ops) ==
  [path |-> path, err |-> err, files |-> f, dirs |-> d, ops |-> ops]

\* DownloadWrite without line 259's os.Remove: a failed write leaves what
\* it wrote.
DownloadWrite_NoRemove(t, env, f, d, ops) ==
  IF env.fault = "create" \/ t.filePath \in d
  THEN DlReturn(<<>>, "failed to create file", f, d, Append(ops, "Create"))
  ELSE IF env.fault = "write"
       THEN DlReturn(<<>>, "failed to save file",
                     WriteFile(f, t.filePath, Sub(env.body, 1, env.written)), d,
                     ops \o <<"Create", "Write">>)
       ELSE DlReturn(t.filePath, "nil", WriteFile(f, t.filePath, env.body), d,
                     ops \o <<"Create", "Write">>)

\* DownloadWrite that removes the file when os.Create failed, too.
DownloadWrite_RemoveOnCreateError(t, env, f, d, ops) ==
  IF env.fault = "create" \/ t.filePath \in d
  THEN DlReturn(<<>>, "failed to create file", RemoveFile(f, t.filePath), d,
                ops \o <<"Create", "Remove">>)
  ELSE IF env.fault = "write"
       THEN LET partial == WriteFile(f, t.filePath, Sub(env.body, 1, env.written))
            IN  DlReturn(<<>>, "failed to save file", RemoveFile(partial, t.filePath), d,
                         ops \o <<"Create", "Write", "Remove">>)
       ELSE DlReturn(t.filePath, "nil", WriteFile(f, t.filePath, env.body), d,
                     ops \o <<"Create", "Write">>)

\* Lines 249-263: create or replace the file, write, remove on failure.
\* env.fault = "create": os.Create fails; "write": outFile.Write fails
\* after env.written bytes.
DownloadWrite(t, env, f, d, ops) ==
  IF env.fault = "create" \/ t.filePath \in d
  THEN DlReturn(<<>>, "failed to create file", f, d, Append(ops, "Create"))
  ELSE IF env.fault = "write"
       THEN LET partial == WriteFile(f, t.filePath, Sub(env.body, 1, env.written))
            IN  DlReturn(<<>>, "failed to save file", RemoveFile(partial, t.filePath), d,
                         ops \o <<"Create", "Write", "Remove">>)
       ELSE DlReturn(t.filePath, "nil", WriteFile(f, t.filePath, env.body), d,
                     ops \o <<"Create", "Write">>)

\* DownloadCheck without line 243's comparison: an existing file is always
\* replaced.
DownloadCheck_NoCompare(t, env, f, d, ops) ==
  IF StatOk(f, d, t.filePath)
  THEN IF env.fault = "checksum" \/ t.filePath \notin DOMAIN f
       THEN DlReturn(t.filePath, "warning: failed to compute checksum of existing file, will replace",
                     f, d, ops \o <<"Stat", "Open">>)
       ELSE DownloadWrite(t, env, f, d, ops \o <<"Stat", "Open">>)
  ELSE DownloadWrite(t, env, f, d, Append(ops, "Stat"))

\* DownloadCheck that skips whenever a readable file exists, whatever its
\* digest.
DownloadCheck_SkipExisting(t, env, f, d, ops) ==
  IF StatOk(f, d, t.filePath)
  THEN IF env.fault = "checksum" \/ t.filePath \notin DOMAIN f
       THEN DlReturn(t.filePath, "warning: failed to compute checksum of existing file, will replace",
                     f, d, ops \o <<"Stat", "Open">>)
       ELSE DlReturn(t.filePath, "ErrFileExists", f, d, ops \o <<"Stat", "Open">>)
  ELSE DownloadWrite(t, env, f, d, Append(ops, "Stat"))

\* Lines 230-247: the check of an existing file. env.fault = "checksum":
\* computeFileChecksum fails (it also fails on a directory).
DownloadCheck(t, env, f, d, ops) ==
  IF StatOk(f, d, t.filePath)
  THEN IF env.fault = "checksum" \/ t.filePath \notin DOMAIN f
       THEN DlReturn(t.filePath, "warning: failed to compute checksum of existing file, will replace",
                     f, d, ops \o <<"Stat", "Open">>)
       ELSE IF Sum256(env.body) = Sum256(f[t.filePath])
            THEN DlReturn(t.filePath, "ErrFileExists", f, d, ops \o <<"Stat", "Open">>)
            ELSE DownloadWrite(t, env, f, d, ops \o <<"Stat", "Open">>)
  ELSE DownloadWrite(t, env, f, d, Append(ops, "Stat"))

\* Lines 202-228: the two MkdirAll and the read of the body.
DownloadDirs(t, env, f, d) ==
  IF env.fault = "mkdirType" \/ ~MkdirAllOk(f, t.typeDir)
  THEN DlReturn(<<>>, "failed to create documents directory", f, d, <<"MkdirAll">>)
  ELSE LET d1 == MkdirAll(d, t.typeDir)
       IN  IF env.fault = "mkdirSub" \/ ~MkdirAllOk(f, t.docSubDir)
           THEN DlReturn(<<>>, "failed to create document subdirectory", f, d1,
                         <<"MkdirAll", "MkdirAll">>)
           ELSE LET d2 == MkdirAll(d1, t.docSubDir)
                IN  IF env.fault = "body"
                    THEN DlReturn(<<>>, "failed to read response body", f, d2,
                                  <<"MkdirAll", "MkdirAll">>)
                    ELSE DownloadCheck(t, env, f, d2, <<"MkdirAll", "MkdirAll">>)

\* Download that creates the type directory before it looks at the
\* response's status.
Download_DirsBeforeStatus(url, env, f, d) ==
  IF env.fault = "request"
  THEN DlReturn(<<>>, "failed to create request", f, d, <<>>)
  ELSE IF env.fault = "net"
       THEN DlReturn(<<>>, "failed to download", f, d, <<>>)
       ELSE IF env.status # StatusOK
            THEN DlReturn(<<>>, "bad status", f, MkdirAll(d, TargetOf(url).typeDir),
                          <<"MkdirAll">>)
            ELSE DownloadDirs(TargetOf(url), env, f, d)

\* Download(url) on the filesystem (f, d), with the environment's answers
\* env: the response's status and body, and the step that fails, if any.
Download(url, env, f, d) ==
  IF env.fault = "request"
  THEN DlReturn(<<>>, "failed to create request", f, d, <<>>)
  ELSE IF env.fault = "net"
       THEN DlReturn(<<>>, "failed to download", f, d, <<>>)
       ELSE IF env.status # StatusOK
            THEN DlReturn(<<>>, "bad status", f, d, <<>>)
            ELSE DownloadDirs(TargetOf(url), env, f, d)

----------------------------------------------------------------------------
(* The patterns ExpandPattern is called with.                              *)

Str1(c) == <<c>>

\* Numeric literals of a marker: short ones, zero-padded ones, and the
\* ones around the largest int.
NumLits ==
  { <<"0">>, <<"1">>, <<"2">>, <<"0", "3">>, <<"1", "0">>,
    ItoaNat[MaxInt - 1], ItoaNat[MaxInt],
    <<"2", "1", "4", "7", "4", "8", "3", "6", "4", "8">> }

Markers ==
  { <<"{">> \o a \o <<sep>> \o b \o <<"}">> :
      a \in NumLits, b \in NumLits, sep \in {"-", ":"} }

\* Braces that are not a marker.
Malformed ==
  { <<"{", "5", "}">>, <<"{", "a", "-", "b", "}">>, <<"{", "1", "-", "}">>,
    <<"{", "1", "-", "2">>, <<"{", "}", "1", "-", "2", "}">> }

SecondSegments == { <<>>, <<"_", "{", "5", "-", "6", "}">>, <<"{", "0", "1", ":", "2", "}">> }

Patterns ==
  { pre \o s1 \o s2 \o suf :
      pre \in {<<>>, <<"f">>},
      s1 \in Markers \cup Malformed \cup {<<>>},
      s2 \in SecondSegments,
      suf \in {<<>>, <<".", "p">>} }

----------------------------------------------------------------------------
(* Values of the variables a specification does not use.                   *)

NoFiles == [p \in {} |-> <<>>]
NoCall == [op |-> "none"]
NoRun == [pc |-> "none"]
NoEp == [pc |-> "none"]

----------------------------------------------------------------------------
(* SpecExpand: one call of ExpandPattern on any of the patterns.           *)

InitExpand ==
  /\ ep \in {EpCall(p) : p \in Patterns}
  /\ files = NoFiles /\ dirs = {} /\ call = NoCall /\ ncalls = 0 /\ rn = NoRun

ExpandEnter ==
  /\ ep.pc = "call"
  /\ ep' = ExpandPatternEnter(ep)
  /\ UNCHANGED <<files, dirs, call, ncalls, rn>>

ExpandLoop ==
  /\ ep.pc = "loop" /\ ep.i <= ep.end
  /\ Len(ep.results) < MaxResults
  /\ ep' = ExpandPatternBody(ep)
  /\ UNCHANGED <<files, dirs, call, ncalls, rn>>

ExpandReturn ==
  /\ ep.pc = "loop" /\ ep.i > ep.end
  /\ ep' = ExpandPatternExit(ep)
  /\ UNCHANGED <<files, dirs, call, ncalls, rn>>

NextExpand == ExpandEnter \/ ExpandLoop \/ ExpandReturn

SpecExpand == InitExpand /\ [][NextExpand]_vars

----------------------------------------------------------------------------
(* SpecDl: Download calls, one after the other, on one filesystem.         *)

\* Response bodies (sequences of bytes).
Bodies == {<<>>, <<7>>, <<7, 8>>}

\* The step of Download the environment makes fail, if any.
Faults ==
  {"none", "request", "net", "mkdirType", "mkdirSub", "body", "checksum",
   "create", "write"}

\* The environment's answers to one Download: a response is there unless
\* the request failed; a failed write has written a strict prefix.
Envs ==
  { [fault |-> ft, status |-> st, body |-> b, written |-> w] :
      ft \in Faults, st \in {200, 201, 404}, b \in Bodies, w \in 0..2 } 

EnvOk(env) ==
  /\ env.written <= Max(Len(env.body) - 1, 0)
  /\ (env.fault # "write" => env.written = 0)
  /\ (env.fault \in {"request", "net"} => env.status = 200 /\ env.body = <<>>)
  /\ (env.status # 200 => env.fault = "none" /\ env.body = <<>>)

InitDl ==
  /\ files = NoFiles /\ dirs = {} /\ call = NoCall /\ ncalls = 0
  /\ ep = NoEp /\ rn = NoRun

DoDownload ==
  /\ ncalls < MaxCalls
  /\ \E url \in Urls, env \in {e \in Envs : EnvOk(e)} :
       LET r == Download(url, env, files, dirs)
       IN  /\ files' = r.files
           /\ dirs' = r.dirs
           /\ call' = [op |-> "Download", url |-> url, env |-> env,
                       target |-> TargetOf(url).filePath,
                       path |-> r.path, err |-> r.err, ops |-> r.ops,
                       before |-> files, dirsBefore |-> dirs]
  /\ ncalls' = ncalls + 1
  /\ UNCHANGED <<ep, rn>>

NextDl == DoDownload

SpecDl == InitDl /\ [][NextDl]_vars

----------------------------------------------------------------------------
(* Claims about Download, checked under SpecDl.                            *)

\* The last call got a 200 response, read its body, and found a regular
\* file at its target path whose digest it could compute.
Compared ==
  /\ call.op = "Download"
  /\ call.env.status = StatusOK
  /\ call.env.fault \in {"none", "create", "write"}
  /\ call.target \in DOMAIN call.before

DigestsEqual == Sum256(call.before[call.target]) = Sum256(call.env.body)

\* C1 (idempotent fetch): a Download that finds at its target path a file
\* whose digest equals the digest of the downloaded bytes returns that path
\* with ErrFileExists and does not create, truncate, write or remove the
\* file: the filesystem's files are those of before the call, byte for byte.
C1_IdempotentFetch ==
  (Compared /\ DigestsEqual) =>
    /\ call.path = call.target
    /\ call.err = "ErrFileExists"
    /\ files = call.before
    /\ \A k \in 1..Len(call.ops) : call.ops[k] \notin {"Create", "Write", "Remove"}

\* A second fetch of unchanged content was made, by an environment that
\* would have failed the write.
C1_Witness ==
  /\ Compared /\ DigestsEqual
  /\ call.env.fault = "write"
  /\ call.env.body # <<>>
  /\ call.err = "ErrFileExists"

\* C2 (digest-triggered replace): a Download that finds at its target path
\* a file whose digest differs from the digest of the downloaded bytes, and
\* whose create and write do not fail, returns the path with no error; the
\* file then holds exactly the downloaded bytes, so its digest is the new
\* one and differs from the old one.
C2_DigestReplace ==
  (Compared /\ call.env.fault = "none" /\ ~DigestsEqual) =>
    /\ call.path = call.target
    /\ call.err = "nil"
    /\ call.target \in DOMAIN files
    /\ files[call.target] = call.env.body
    /\ Sum256(files[call.target]) = Sum256(call.env.body)
    /\ Sum256(files[call.target]) # Sum256(call.before[call.target])

\* A file was replaced by a file of other content.
C2_Witness ==
  /\ Compared /\ call.env.fault = "none" /\ ~DigestsEqual
  /\ call.err = "nil"
  /\ call.before[call.target] # <<>>
  /\ call.env.body # <<>>

\* C3 (unreadable existing file), as claimed: a Download that finds a file
\* at its target path and cannot compute its digest overwrites the file
\* with the downloaded bytes and returns the path as a success.
C3_UnreadableIsReplaced ==
  ( /\ call.op = "Download"
    /\ call.env.status = StatusOK
    /\ call.env.fault = "checksum"
    /\ call.target \in DOMAIN call.before ) =>
    /\ call.path = call.target
    /\ call.err = "nil"
    /\ call.target \in DOMAIN files
    /\ files[call.target] = call.env.body

\* The last call reached the write of the file, and the write failed.
WriteFailed ==
  /\ call.op = "Download"
  /\ call.env.status = StatusOK
  /\ call.env.fault = "write"
  /\ (call.target \in DOMAIN call.before => ~DigestsEqual)

----------------------------------------------------------------------------
(* Claims about ExpandPattern, checked under SpecExpand.                   *)

\* Number of substrings of s that match the marker's regexp (two matches
\* never overlap: each starts with the only '{' it contains).
MarkerCount(s) == Cardinality({p \in 1..Len(s) : MatchAt[s, p].ok})

\* The pattern with its first marker, and nothing else, replaced by num.
FirstMarkerReplaced(pattern, num) ==
  LET m == FindStringSubmatch[pattern]
  IN  Sub(pattern, 1, m.from - 1) \o num \o Sub(pattern, m.to + 1, Len(pattern))

\* The first marker of the call's pattern is {A-B} or {A:B} with A <= B.
FirstMarkerInOrder ==
  LET m == FindStringSubmatch[ep.pattern]
  IN  /\ m.ok
      /\ Atoi[m.startStr].ok /\ Atoi[m.endStr].ok
      /\ Atoi[m.startStr].val <= Atoi[m.endStr].val

\* C9 (pattern expansion result), as claimed: for a pattern whose first
\* marker {A-B} or {A:B} has A <= B, the call raises no error, the strings
\* appended so far are never more than B - A + 1, the k-th of them (from 0)
\* is the pattern with the first marker replaced by A + k in decimal,
\* zero-padded to the longer of the two literals, and the call returns
\* only with all B - A + 1 of them.  The expected strings do not depend on
\* the separator, so '-' and ':' give the same result.
C9_ExpansionResult ==
  (ep.pc \in {"loop", "done"} /\ FirstMarkerInOrder) =>
    LET m == FindStringSubmatch[ep.pattern]
        A == Atoi[m.startStr].val
        B == Atoi[m.endStr].val
        w == Max(Len(m.startStr), Len(m.endStr))
    IN  /\ ep.err = "nil"
        /\ Len(ep.results) - 1 <= B - A
        /\ \A k \in 1..Len(ep.results) :
             ep.results[k] = FirstMarkerReplaced(ep.pattern, SprintfPad[w, A + (k - 1)])
        /\ (ep.pc = "done" => Len(ep.results) - 1 = B - A)

\* C10 (only the first marker is expanded), as claimed: for a pattern with
\* more than one marker, each output string is the pattern with its first
\* marker replaced by a number; what precedes and what follows the first
\* marker, the later markers included, is in the output unchanged.
C10_OnlyFirstMarker ==
  (ep.pc \in {"loop", "done"} /\ MarkerCount(ep.pattern) > 1) =>
    \A k \in 1..Len(ep.results) :
      LET m == FindStringSubmatch[ep.pattern]
          pre == Sub(ep.pattern, 1, m.from - 1)
          suf == Sub(ep.pattern, m.to + 1, Len(ep.pattern))
          r == ep.results[k]
      IN  /\ Len(r) > Len(pre) + Len(suf)
          /\ HasPrefix[r, pre] /\ HasSuffix[r, suf]
          /\ \A j \in (Len(pre) + 1)..(Len(r) - Len(suf)) :
               IsDigit[r[j]] \/ r[j] = "-"

----------------------------------------------------------------------------
(* config.Config, Config.GetInputs                                         *)

\* A decoded config file: absent keys are empty strings and empty lists.
Config(url, urls, pattern, pdfUrl, pdfUrls, pdfPattern) ==
  [URL |-> url, URLs |-> urls, Pattern |-> pattern,
   PDFURL |-> pdfUrl, PDFURLs |-> pdfUrls, PDFPattern |-> pdfPattern]

\* GetInputs that prefers the single URL to the list of URLs.
GetInputs_UrlFirst(c) ==
  LET pattern == IF c.Pattern = <<>> /\ c.PDFPattern # <<>> THEN c.PDFPattern ELSE c.Pattern
      urls == IF Len(c.URLs) = 0 /\ Len(c.PDFURLs) > 0 THEN c.PDFURLs ELSE c.URLs
      url == IF c.URL = <<>> /\ c.PDFURL # <<>> THEN c.PDFURL ELSE c.URL
  IN  IF pattern # <<>> THEN <<>>
      ELSE IF url # <<>> THEN <<url>>
           ELSE IF Len(urls) > 0 THEN urls ELSE <<>>

\* Config.GetInputs: legacy fields fill the empty new ones, then
\* Pattern > URLs > URL.
GetInputs(c) ==
  LET pattern == IF c.Pattern = <<>> /\ c.PDFPattern # <<>> THEN c.PDFPattern ELSE c.Pattern
      urls == IF Len(c.URLs) = 0 /\ Len(c.PDFURLs) > 0 THEN c.PDFURLs ELSE c.URLs
      url == IF c.URL = <<>> /\ c.PDFURL # <<>> THEN c.PDFURL ELSE c.URL
  IN  IF pattern # <<>> THEN <<>>
      ELSE IF Len(urls) > 0 THEN urls
           ELSE IF url # <<>> THEN <<url>> ELSE <<>>

----------------------------------------------------------------------------
(* pathutil.GetFileType, pathutil.ResolveDocumentPath                      *)

\* pathutil.GetFileType: the table entry, "pdf" when there is none.
PathutilGetFileType[filename \in Str] ==
  LET ext == ToLower[Ext[filename]]
  IN  IF \E t \in ExtTypes : ext = <<".">> \o t
      THEN Sub(ext, 2, Len(ext))
      ELSE S_pdf

\* The paths ResolveDocumentPath stats for a bare name, in order.
ResolveCandidates[input \in Str] ==
  LET fileType == PathutilGetFileType[input]
      ext == Ext[input]
      baseName == TrimSuffix[TrimSuffix[input, ext], ToUpper[ext]]
      typeDir == Join[S_documents, fileType]
      new == <<Join[Join[typeDir, baseName], input], Join[typeDir, input]>>
  IN  IF fileType = S_pdf
      THEN new \o <<Join[Join[S_pdfs, baseName], input], Join[S_pdfs, input]>>
      ELSE new

RECURSIVE FirstStatOk(_, _, _, _, _)
\* The first of the candidates from position k on that os.Stat finds,
\* otherwise the fallback.
FirstStatOk(cands, k, fallback, f, d) ==
  IF k > Len(cands) THEN fallback
  ELSE IF StatOk(f, d, cands[k]) THEN cands[k]
       ELSE FirstStatOk(cands, k + 1, fallback, f, d)

\* ResolveDocumentPath that probes the candidates from the last to the
\* first.
ResolveDocumentPath_LegacyFirst(input, f, d) ==
  IF IsAbs[input] \/ Contains[input, "/"] THEN input
  ELSE LET c == ResolveCandidates[input]
       IN  FirstStatOk([k \in 1..Len(c) |-> c[Len(c) + 1 - k]], 1, input, f, d)

\* ResolveDocumentPath that looks up the file name of an explicit path in
\* the document directories.
ResolveDocumentPath_ProbesExplicit(input, f, d) ==
  LET name == Sub(input, LastIndexOf[input, "/"] + 1, Len(input))
  IN  FirstStatOk(ResolveCandidates[name], 1, input, f, d)

ResolveDocumentPath(input, f, d) ==
  IF IsAbs[input] \/ Contains[input, "/"] THEN input
  ELSE FirstStatOk(ResolveCandidates[input], 1, input, f, d)

----------------------------------------------------------------------------
(* extractor.ExtractText, extractor.SaveExtractedText                      *)

\* What the pdf library reads in a file.  The documents of the model: an
\* empty file is no PDF; <<1>> is a PDF without pages; any other content
\* is a PDF with one page for each byte, a byte 0 being a page without
\* text and another byte b a page whose text is the character b.
PdfOpen[content \in Seq(Int)] ==
  IF content = <<>> THEN [ok |-> FALSE, pages |-> <<>>]
  ELSE IF content = <<1>> THEN [ok |-> TRUE, pages |-> <<>>]
       ELSE [ok |-> TRUE, pages |-> content]

\* "\n\n--- Page i ---\n\n", the line "--- Page i ---" written as -i.
PageSep(i) == <<10, 10, -i, 10, 10>>

\* Lines 80-106 of extractFromPDF: the texts of the pages from i on, a
\* separator before each page but the first, pages without text skipped.
PagesText[pages \in Seq(Int), i \in Int] ==
  IF i > Len(pages) THEN <<>>
  ELSE IF pages[i] = 0 THEN PagesText[pages, i + 1]
       ELSE (IF i > 1 THEN PageSep(i) ELSE <<>>) \o <<pages[i]>>
              \o PagesText[pages, i + 1]

\* What ExtractTextStructured returns: fullText and the error.
ExReturn(text, err) == [text |-> text, err |-> err]

\* extractFromPDF that returns the text of the pages even when it is empty.
extractFromPDF_AllowsEmpty(filePath, f) ==
  IF filePath \notin DOMAIN f \/ ~PdfOpen[f[filePath]].ok
  THEN ExReturn(<<>>, "failed to open document")
  ELSE LET pages == PdfOpen[f[filePath]].pages
       IN  IF Len(pages) = 0 THEN ExReturn(<<>>, "document has no pages")
           ELSE ExReturn(PagesText[pages, 1], "nil")

\* Lines 63-114.
extractFromPDF(filePath, f) ==
  IF filePath \notin DOMAIN f \/ ~PdfOpen[f[filePath]].ok
  THEN ExReturn(<<>>, "failed to open document")
  ELSE LET pages == PdfOpen[f[filePath]].pages
       IN  IF Len(pages) = 0 THEN ExReturn(<<>>, "document has no pages")
           ELSE IF PagesText[pages, 1] = <<>>
                THEN ExReturn(<<>>, "no text could be extracted")
                ELSE ExReturn(PagesText[pages, 1], "nil")

S_dotpdf == <<".", "p", "d", "f">>

ExtractTextStructured(filePath, f, d) ==
  IF ~StatOk(f, d, filePath) THEN ExReturn(<<>>, "file does not exist")
  ELSE IF ToLower[Ext[filePath]] = S_dotpdf THEN extractFromPDF(filePath, f)
       ELSE ExReturn(<<>>, "file type not yet supported")

ExtractText(filePath, f, d) == ExtractTextStructured(filePath, f, d)

S_extracted_json ==
  <<".", "e", "x", "t", "r", "a", "c", "t", "e", "d", ".", "j", "s", "o", "n">>
S_extracted_txt ==
  <<".", "e", "x", "t", "r", "a", "c", "t", "e", "d", ".", "t", "x", "t">>

\* filepath.Base of a Cleaned path: its last element.
Base[path \in Str] ==
  IF path = <<>> THEN <<".">>
  ELSE Sub(path, LastIndexOf[path, "/"] + 1, Len(path))

\* FormatAsJSON: a JSON object ('{' ... '}') around the full text; the
\* metadata and the page list of the object are left out.
FormatAsJSON(filePath, fullText) == <<123>> \o fullText \o <<125>>

\* os.WriteFile(path, content): it fails when the path is a directory or
\* its directory is missing; fault = "open": the open fails; "write": the
\* file is opened and truncated, and the write fails.
OsWriteFile(f, d, path, content, fault) ==
  IF fault = "open" \/ path \in d \/ ~StatOk(f, d, Dir[path])
  THEN [ok |-> FALSE, files |-> f]
  ELSE IF fault = "write"
       THEN [ok |-> FALSE, files |-> WriteFile(f, path, <<>>)]
       ELSE [ok |-> TRUE, files |-> WriteFile(f, path, content)]

\* What SaveExtractedText returns, and the files it leaves.
SvReturn(path, w) ==
  IF w.ok THEN [path |-> path, err |-> "nil", files |-> w.files]
  ELSE [path |-> <<>>, err |-> "failed to write extracted text file",
        files |-> w.files]

\* The path of the extracted text of a document, with the given suffix.
ExtractedPath[filePath \in Str, suffix \in Str] ==
  LET baseName == Base[filePath]
      ext == Ext[baseName]
      baseNameNoExt == TrimSuffix[TrimSuffix[baseName, ext], ToUpper[ext]]
  IN  Join[Dir[filePath], baseNameNoExt \o suffix]

savePlainText(filePath, text, fault, f, d) ==
  LET extractedPath == ExtractedPath[filePath, S_extracted_txt]
  IN  SvReturn(extractedPath, OsWriteFile(f, d, extractedPath, text, fault))

\* SaveExtractedText of extractor.New(), whose output format is "json".
SaveExtractedText(filePath, text, fault, f, d) ==
  LET x == ExtractTextStructured(filePath, f, d)
  IN  IF x.err # "nil" THEN savePlainText(filePath, text, fault, f, d)
      ELSE LET extractedPath == ExtractedPath[filePath, S_extracted_json]
           IN  SvReturn(extractedPath,
                        OsWriteFile(f, d, extractedPath,
                                    FormatAsJSON(filePath, x.text), fault))

----------------------------------------------------------------------------
(* main.run                                                                *)

\* run() about to start: the config file's state, the arguments, and the
\* locals of run.  exit is -1 until run returns; stdout is what fmt.Print
\* wrote; summary holds the numbers of the summary once it is printed; log
\* is the history of the stages run called: input index, stage, the path
\* returned (fetch, resolve) or passed (extract, save), and the error.
RunInit(cfgOk, cfg, args) ==
  [pc |-> "start", cfgOk |-> cfgOk, cfg |-> cfg, args |-> args,
   inputs |-> <<>>, i |-> 0, filePath |-> <<>>, text |-> <<>>,
   hasErrors |-> FALSE, successCount |-> 0, errorCount |-> 0,
   exit |-> -1, stdout |-> <<>>, summary |-> <<>>, log |-> <<>>]

Logged(r, stage, path, err) ==
  [r EXCEPT !.log = Append(@, [i |-> r.i, stage |-> stage, path |-> path,
                               err |-> err])]

\* Lines 212-216: the pattern of the config, the legacy key as fallback.
PatternStr(cfg) ==
  IF cfg.Pattern = <<>> /\ cfg.PDFPattern # <<>> THEN cfg.PDFPattern
  ELSE cfg.Pattern

\* Lines 234-249: the arguments when the config gave no input, usage and
\* exit code 1 when there is none either; otherwise the loop starts.
WithInputs(r, inputs) ==
  LET ins == IF Len(inputs) = 0 THEN r.args ELSE inputs
  IN  IF Len(ins) = 0 THEN [r EXCEPT !.pc = "done", !.exit = 1]
      ELSE [r EXCEPT !.pc = "loop", !.inputs = ins, !.i = 1]

\* HardError that ends the run at the first error of any run.
HardError_AbortsBatch(r) ==
  [r EXCEPT !.pc = "done", !.exit = 1, !.filePath = <<>>, !.text = <<>>]

\* HardError that goes on to the end of the loop in a single-input run too.
HardError_SingleContinues(r) ==
  [r EXCEPT !.hasErrors = TRUE, !.errorCount = @ + 1, !.i = @ + 1,
            !.pc = "loop", !.filePath = <<>>, !.text = <<>>]

\* Lines 267-272, 289-294, 300-305: after a hard error, return 1 in a
\* single-input run, otherwise count the error and continue with the
\* next input.  filePath and text are locals of one iteration.
HardError(r) ==
  IF Len(r.inputs) = 1
  THEN [r EXCEPT !.pc = "done", !.exit = 1, !.filePath = <<>>, !.text = <<>>]
  ELSE [r EXCEPT !.hasErrors = TRUE, !.errorCount = @ + 1, !.i = @ + 1,
                 !.pc = "loop", !.filePath = <<>>, !.text = <<>>]

\* FetchResult that goes on to the extraction after a hard error as well.
FetchResult_ExtractsAfterError(r, res) ==
  IF res.err = "nil"
  THEN [r EXCEPT !.filePath = res.path, !.successCount = @ + 1, !.pc = "extract"]
  ELSE [r EXCEPT !.filePath = res.path, !.pc = "extract"]

\* Lines 262-279: what run does with Download's result.
FetchResult(r, res) ==
  IF res.err = "nil"
  THEN [r EXCEPT !.filePath = res.path, !.successCount = @ + 1, !.pc = "extract"]
  ELSE IF res.err = "ErrFileExists"
       THEN [r EXCEPT !.filePath = res.path, !.pc = "extract"]
       ELSE HardError(r)

\* ExitCode that reports success whatever happened.
ExitCode_AlwaysZero(hasErrors) == 0

\* Lines 330-333.
ExitCode(hasErrors) == IF hasErrors THEN 1 ELSE 0

\* Lines 321-328: the numbers of the summary, the errors when there are.
Summary(r) ==
  IF Len(r.inputs) > 1
  THEN <<Len(r.inputs), r.successCount>>
         \o (IF r.errorCount > 0 THEN <<r.errorCount>> ELSE <<>>)
  ELSE <<>>

\* Lines 314-317: the text, and two newlines between the texts of a
\* multi-input run.
Printed(r, text) ==
  r.stdout \o text
    \o (IF Len(r.inputs) > 1 /\ r.i < Len(r.inputs) THEN <<10, 10>> ELSE <<>>)

IsUrl[input \in Str] == HasPrefix[input, S_http] \/ HasPrefix[input, S_https]

----------------------------------------------------------------------------
(* SpecRun: one execution of run().                                        *)

\* A bare file name, as an argument.
L_a == <<"a", ".", "p", "d", "f">>

\* The command-line arguments are lists of these, at most MaxArgs long.
ArgInputs == {Url_a, Url_b, L_a}
ArgLists == UNION { [1..n -> ArgInputs] : n \in 0..MaxArgs }

\* Patterns of the config: a range of two, a range in the wrong order, a
\* number beyond the int range.
P_ok == S_http \o <<"h", "/", "{", "1", "-", "2", "}", ".", "p", "d", "f">>
P_rev == S_http \o <<"h", "/", "{", "2", "-", "1", "}", ".", "p", "d", "f">>
P_big ==
  S_http \o <<"h", "/", "{", "1", ":", "2", "1", "4", "7", "4", "8", "3", "6",
              "4", "8", "}">>

EmptyConfig == Config(<<>>, <<>>, <<>>, <<>>, <<>>, <<>>)

\* The config file: missing or unreadable (ok = FALSE), or one of these.
RunConfigs ==
  {[ok |-> FALSE, c |-> EmptyConfig]} \cup
  { [ok |-> TRUE, c |-> c] :
      c \in { EmptyConfig,
              Config(<<>>, <<>>, P_ok, <<>>, <<>>, <<>>),
              Config(<<>>, <<>>, P_rev, <<>>, <<>>, <<>>),
              Config(<<>>, <<>>, P_big, <<>>, <<>>, <<>>),
              Config(<<>>, <<>>, Url_a, <<>>, <<>>, <<>>),
              Config(<<>>, <<Url_b>>, <<>>, <<>>, <<>>, P_ok),
              Config(Url_b, <<Url_a, Url_b>>, <<>>, <<>>, <<>>, <<>>),
              Config(<<>>, <<>>, <<>>, <<>>, <<Url_b, Url_a>>, <<>>),
              Config(Url_a, <<>>, <<>>, Url_b, <<>>, <<>>),
              Config(<<>>, <<>>, <<>>, Url_b, <<>>, <<>>),
              Config(Url_b, <<>>, P_ok, <<>>, <<>>, P_rev),
              Config(<<>>, <<Url_a>>, <<>>, <<>>, <<Url_b>>, <<>>),
              Config(Url_a, <<>>, <<>>, <<>>, <<Url_b>>, <<>>) } }

\* The environment's answers to the Downloads of run: a one-page and a
\* two-page document, a document without text, a 404, an existing file
\* that cannot be read, a failing write.
RunEnvs ==
  { [fault |-> "none", status |-> 200, body |-> <<7>>, written |-> 0],
    [fault |-> "none", status |-> 200, body |-> <<7, 8>>, written |-> 0],
    [fault |-> "none", status |-> 200, body |-> <<0>>, written |-> 0],
    [fault |-> "none", status |-> 404, body |-> <<>>, written |-> 0],
    [fault |-> "checksum", status |-> 200, body |-> <<7>>, written |-> 0],
    [fault |-> "write", status |-> 200, body |-> <<7, 8>>, written |-> 1] }

WriteFaults == {"none", "open", "write"}

\* The filesystem run starts on: empty, or with the document of Url_a as
\* an earlier run downloaded it.
InitFs ==
  { [files |-> NoFiles, dirs |-> {}],
    [files |-> WriteFile(NoFiles, TargetOf(Url_a).filePath, <<7>>),
     dirs |-> MkdirAll({}, TargetOf(Url_a).docSubDir)] }

\* A config that sets a key comes with no argument or with one; the
\* longer argument lists come with no config and with the empty config.
InitRun ==
  /\ \E cf \in RunConfigs, args \in ArgLists :
       /\ (cf.c # EmptyConfig => Len(args) <= 1)
       /\ rn = RunInit(cf.ok, cf.c, args)
  /\ \E fs \in InitFs : files = fs.files /\ dirs = fs.dirs
  /\ ep = NoEp /\ call = NoCall /\ ncalls = 0

\* Lines 206-242, with a config that sets no pattern or with no config.
RunStart ==
  /\ rn.pc = "start"
  /\ ~(rn.cfgOk /\ PatternStr(rn.cfg) # <<>>)
  /\ rn' = WithInputs(rn, IF rn.cfgOk THEN GetInputs(rn.cfg) ELSE <<>>)
  /\ UNCHANGED <<ep, files, dirs, call, ncalls>>

\* Lines 206-218: the config sets a pattern, ExpandPattern is called.
RunExpand ==
  /\ rn.pc = "start"
  /\ rn.cfgOk /\ PatternStr(rn.cfg) # <<>>
  /\ rn' = [rn EXCEPT !.pc = "expand"]
  /\ ep' = EpCall(PatternStr(rn.cfg))
  /\ UNCHANGED <<files, dirs, call, ncalls>>

\* RunExpanded that falls back to the command-line arguments when the
\* expansion failed.
RunExpanded_FallsBackToArgs ==
  /\ rn.pc = "expand" /\ ep.pc = "done"
  /\ rn' = WithInputs(rn, IF ep.err # "nil" THEN <<>> ELSE ep.results)
  /\ UNCHANGED <<ep, files, dirs, call, ncalls>>

\* Lines 218-242: ExpandPattern has returned.
RunExpanded ==
  /\ rn.pc = "expand" /\ ep.pc = "done"
  /\ rn' = IF ep.err # "nil" THEN [rn EXCEPT !.pc = "done", !.exit = 1]
           ELSE WithInputs(rn, ep.results)
  /\ UNCHANGED <<ep, files, dirs, call, ncalls>>

\* Lines 251-279: the input is a URL.
ItemDownload ==
  /\ rn.pc = "loop" /\ rn.i <= Len(rn.inputs)
  /\ IsUrl[rn.inputs[rn.i]]
  /\ \E env \in RunEnvs :
       \E res \in {Download(rn.inputs[rn.i], env, files, dirs)} :
           /\ files' = res.files
           /\ dirs' = res.dirs
           /\ rn' = FetchResult(Logged(rn, "fetch", res.path, res.err), res)
  /\ UNCHANGED <<ep, call, ncalls>>

\* Lines 251-260, 280-283: the input is no URL.
ItemResolve ==
  /\ rn.pc = "loop" /\ rn.i <= Len(rn.inputs)
  /\ ~IsUrl[rn.inputs[rn.i]]
  /\ \E path \in {ResolveDocumentPath(rn.inputs[rn.i], files, dirs)} :
       rn' = [Logged(rn, "resolve", path, "nil") EXCEPT
                !.filePath = path, !.pc = "extract"]
  /\ UNCHANGED <<ep, files, dirs, call, ncalls>>

\* Lines 285-295.
ItemExtract ==
  /\ rn.pc = "extract"
  /\ \E x \in {ExtractText(rn.filePath, files, dirs)} :
       LET r == Logged(rn, "extract", rn.filePath, x.err)
       IN  rn' = IF x.err # "nil" THEN HardError(r)
                 ELSE [r EXCEPT !.text = x.text, !.pc = "save"]
  /\ UNCHANGED <<ep, files, dirs, call, ncalls>>

\* Lines 297-317.
ItemSave ==
  /\ rn.pc = "save"
  /\ \E fault \in WriteFaults :
       \E sv \in {SaveExtractedText(rn.filePath, rn.text, fault, files, dirs)} :
       LET r == Logged(rn, "save", rn.filePath, sv.err)
       IN  /\ files' = sv.files
           /\ rn' = IF sv.err # "nil" THEN HardError(r)
                    ELSE [r EXCEPT !.successCount = @ + 1,
                                   !.stdout = Printed(rn, rn.text),
                                   !.i = @ + 1, !.pc = "loop",
                                   !.filePath = <<>>, !.text = <<>>]
  /\ UNCHANGED <<ep, dirs, call, ncalls>>

\* Lines 320-333: the loop is over.
RunFinish ==
  /\ rn.pc = "loop" /\ rn.i > Len(rn.inputs)
  /\ rn' = [rn EXCEPT !.pc = "done", !.summary = Summary(rn),
                      !.exit = ExitCode(rn.hasErrors)]
  /\ UNCHANGED <<ep, files, dirs, call, ncalls>>

NextRun ==
  \/ RunStart \/ RunExpand
  \/ ExpandEnter \/ ExpandLoop \/ ExpandReturn
  \/ RunExpanded
  \/ ItemDownload \/ ItemResolve \/ ItemExtract \/ ItemSave
  \/ RunFinish

SpecRun == InitRun /\ [][NextRun]_vars

\* run is one sequential process: a step that can be taken is taken.
SpecRunFair == SpecRun /\ WF_vars(NextRun)

----------------------------------------------------------------------------
(* Claims about run, checked under SpecRun and SpecRunFair.                *)

\* A stage's result is a hard error: an error other than ErrFileExists.
IsHard(e) == e.err \notin {"nil", "ErrFileExists"}

\* Input k has passed one of the stages without a hard error.
StagePassed(k, stages) ==
  \E j \in 1..Len(rn.log) :
    rn.log[j].i = k /\ rn.log[j].stage \in stages /\ ~IsHard(rn.log[j])

ItemCompleted(k) ==
  /\ StagePassed(k, {"fetch", "resolve"})
  /\ StagePassed(k, {"extract"})
  /\ StagePassed(k, {"save"})

ItemFailed(k) == \E j \in 1..Len(rn.log) : rn.log[j].i = k /\ IsHard(rn.log[j])

\* C5 (exit code): run returns 0 or 1; it returns 0 exactly when a
\* non-empty work list was determined and every input passed its fetch or
\* resolution, its extraction and its persistence without a hard error
\* (ErrFileExists is no hard error); it returns 1 when an item failed, when
\* neither the config nor the command line supplied an input, and when the
\* pattern expansion failed.  Until it returns there is no exit code.
C5_ExitCode ==
  /\ rn.pc # "done" => rn.exit = -1
  /\ rn.pc = "done" =>
       /\ rn.exit \in {0, 1}
       /\ rn.exit = 0 <=>
            (rn.inputs # <<>> /\ \A k \in 1..Len(rn.inputs) : ItemCompleted(k))
       /\ (\E k \in 1..Len(rn.inputs) : ItemFailed(k)) => rn.exit = 1
       /\ ((~rn.cfgOk \/ rn.cfg = EmptyConfig) /\ rn.args = <<>>) => rn.exit = 1
       /\ (ep.pc = "done" /\ ep.err # "nil") => rn.exit = 1

\* A run of two inputs returned 0, a fetch having reported ErrFileExists.
C5_Witness ==
  /\ rn.pc = "done" /\ rn.exit = 0 /\ Len(rn.inputs) = 2
  /\ \E j \in 1..Len(rn.log) : rn.log[j].err = "ErrFileExists"

\* The inputs attempted so far, in the order of their attempts.
Attempts == SelectSeq(rn.log, LAMBDA e : e.stage \in {"fetch", "resolve"})

AttemptedInOrder == \A j \in 1..Len(Attempts) : Attempts[j].i = j

\* C6 (error isolation): in a run with more than one input, the inputs
\* are attempted one by one in list order, none twice, and the run
\* always gets to the final summary with every input attempted, whatever
\* the stages of the inputs returned.
C6_ErrorIsolation ==
  /\ [](Len(rn.inputs) > 1 =>
          AttemptedInOrder /\ Len(Attempts) <= Len(rn.inputs))
  /\ (Len(rn.inputs) > 1) ~>
       ( /\ rn.pc = "done" /\ rn.summary # <<>>
         /\ AttemptedInOrder /\ Len(Attempts) = Len(rn.inputs) )

\* A run of two inputs printed its summary after a hard error on the
\* first input and an attempt of the second.
C6_Witness ==
  /\ rn.pc = "done" /\ Len(rn.inputs) = 2 /\ rn.summary # <<>>
  /\ ItemFailed(1)
  /\ \E j \in 1..Len(rn.log) : rn.log[j].i = 2

\* C7 (single-input run): with one input, the first hard error of a stage
\* is the last thing the run does: run returns 1 at once, no stage follows
\* the failed one, and nothing was written to the standard output.
C7_SingleInputError ==
  (Len(rn.inputs) = 1 /\ ItemFailed(1)) =>
    /\ IsHard(rn.log[Len(rn.log)])
    /\ \A j \in 1..(Len(rn.log) - 1) : ~IsHard(rn.log[j])
    /\ rn.pc = "done" /\ rn.exit = 1
    /\ rn.stdout = <<>>

\* The only input was downloaded, and its extraction failed.
C7_Witness ==
  /\ Len(rn.inputs) = 1 /\ Len(rn.log) = 2
  /\ rn.log[1].stage = "fetch" /\ rn.log[1].err = "nil"
  /\ rn.log[2].stage = "extract" /\ IsHard(rn.log[2])
  /\ rn.pc = "done"

\* C8 (per-item stage ordering): an extraction is attempted only right
\* after the fetch (or resolution) of the same input returned without a
\* hard error, and on the path it returned; a persistence only right
\* after the extraction of the same input succeeded, on the same path;
\* after a fetch that returned a hard error no stage of that input
\* follows; after a fetch that reported ErrFileExists the returned path
\* holds a file, the extraction of that path comes next, and the input is
\* not counted as failed: the error count is the number of hard errors.
C8_StageOrdering ==
  /\ (Len(rn.inputs) > 1 =>
        rn.errorCount = Cardinality({j \in 1..Len(rn.log) : IsHard(rn.log[j])}))
  /\ (rn.pc \in {"extract", "save"} =>
        /\ Len(rn.log) > 0
        /\ ~IsHard(rn.log[Len(rn.log)])
        /\ rn.log[Len(rn.log)].path = rn.filePath
        /\ (rn.pc = "save" <=> rn.log[Len(rn.log)].stage = "extract"))
  /\ \A j \in 1..Len(rn.log) :
       LET e == rn.log[j]
       IN  /\ e.stage = "extract" =>
                /\ j > 1
                /\ rn.log[j - 1].i = e.i
                /\ rn.log[j - 1].stage \in {"fetch", "resolve"}
                /\ ~IsHard(rn.log[j - 1])
                /\ rn.log[j - 1].path = e.path
           /\ e.stage = "save" =>
                /\ j > 1
                /\ rn.log[j - 1].i = e.i
                /\ rn.log[j - 1].stage = "extract"
                /\ rn.log[j - 1].err = "nil"
                /\ rn.log[j - 1].path = e.path
           /\ (e.stage = "fetch" /\ IsHard(e)) =>
                \A m \in (j + 1)..Len(rn.log) : rn.log[m].i # e.i
           /\ (e.stage = "fetch" /\ e.err = "ErrFileExists") =>
                IF j = Len(rn.log)
                THEN rn.pc = "extract" /\ rn.filePath = e.path
                       /\ e.path \in DOMAIN files
                ELSE rn.log[j + 1].stage = "extract" /\ rn.log[j + 1].i = e.i

\* In one run a fetch reported ErrFileExists and the text of the existing
\* file was extracted and saved, and the fetch of another input failed.
C8_Witness ==
  /\ \E j \in 1..(Len(rn.log) - 2) :
       /\ rn.log[j].err = "ErrFileExists"
       /\ rn.log[j + 2].stage = "save" /\ rn.log[j + 2].err = "nil"
  /\ \E m \in 1..Len(rn.log) : rn.log[m].stage = "fetch" /\ IsHard(rn.log[m])

----------------------------------------------------------------------------
(* More claims about ExpandPattern, checked under SpecExpand.              *)

\* C11 (invalid range rejection), as claimed: for a pattern whose first
\* marker has start > end the call returns an error and no string; when
\* start = end it returns exactly one string, holding that number in the
\* place of the first marker, and no error.
C11_InvalidRange ==
  LET m == FindStringSubmatch[ep.pattern]
  IN  (ep.pc # "call" /\ m.ok /\ Atoi[m.startStr].ok /\ Atoi[m.endStr].ok) =>
        LET A == Atoi[m.startStr].val
            B == Atoi[m.endStr].val
            w == Max(Len(m.startStr), Len(m.endStr))
            pre == Sub(ep.pattern, 1, m.from - 1)
        IN  /\ A > B => (ep.pc = "done" /\ ep.err # "nil" /\ ep.results = <<>>)
            /\ A = B =>
                 /\ ep.err = "nil"
                 /\ Len(ep.results) <= 1
                 /\ (ep.pc = "done" => Len(ep.results) = 1)
                 /\ \A k \in 1..Len(ep.results) :
                      HasPrefix[ep.results[k], pre \o SprintfPad[w, A]]

\* s[a..b] is a non-empty string of digits.
AllDigits(s, a, b) == a <= b /\ \A k \in a..b : IsDigit[s[k]]

\* s has a substring of the form {digits-digits} or {digits:digits}.
HasMarker(s) ==
  \E p \in 1..Len(s) :
    /\ s[p] = "{"
    /\ \E q \in (p + 2)..Len(s) :
         /\ s[q] \in {"-", ":"}
         /\ AllDigits(s, p + 1, q - 1)
         /\ \E r \in (q + 2)..Len(s) : s[r] = "}" /\ AllDigits(s, q + 1, r - 1)

\* C12 (no-marker passthrough): for a pattern with no substring of the
\* form {digits-digits} or {digits:digits}, malformed braces included, the
\* call returns at once the one-element list holding the pattern
\* unchanged, with no error.
C12_NoMarkerPassthrough ==
  (ep.pc \notin {"none", "call"} /\ ~HasMarker(ep.pattern)) =>
    /\ ep.pc = "done"
    /\ ep.results = <<ep.pattern>>
    /\ ep.err = "nil"

\* The call returned for a pattern with the malformed braces {1-}.
C12_Witness ==
  /\ ep.pc = "done"
  /\ ep.pattern = <<"f", "{", "1", "-", "}", ".", "p">>
  /\ ep.results = <<ep.pattern>>

----------------------------------------------------------------------------
(* More claims about run, checked under SpecRun.                           *)

\* C13 (pattern failure aborts the run): when the config supplies a
\* pattern and its expansion has failed, the only thing run does is to
\* return 1: no input is fetched, resolved, extracted or persisted, nothing
\* is printed, the filesystem is the one run started on, and the
\* command-line arguments do not become the work list.
C13_PatternFailureAborts ==
  (rn.pc # "none" /\ ep.pc = "done" /\ ep.err # "nil") =>
    /\ rn.cfgOk /\ PatternStr(rn.cfg) = ep.pattern
    /\ rn.pc \in {"expand", "done"}
    /\ (rn.pc = "done" => rn.exit = 1)
    /\ rn.inputs = <<>>
    /\ rn.log = <<>>
    /\ rn.stdout = <<>>
    /\ \E fs \in InitFs : files = fs.files /\ dirs = fs.dirs

\* run returned after the expansion of the config's pattern failed, an
\* argument being on the command line.
C13_Witness ==
  /\ rn.pc = "done" /\ rn.exit = 1
  /\ ep.pc = "done" /\ ep.err = "start must be <= end"
  /\ Len(rn.args) = 1

----------------------------------------------------------------------------
(* SpecResolve: ResolveDocumentPath, and Download before it, on document   *)
(* trees of the new and of the legacy layout.                              *)

Slash(a, b) == a \o <<"/">> \o b

\* File names given to ResolveDocumentPath: a PDF, a text file, a name
\* without extension, a name with an extension that is not in the table, a
\* PDF with an upper-case extension.
L_doc == S_doc \o S_dotpdf
L_n == <<"n", ".", "t", "x", "t">>
L_c == <<"c">>
L_z == <<"z", ".", "z", "i", "p">>
L_D == <<"D", ".", "P", "D", "F">>

\* Explicit paths: an absolute one, one with a directory.
Abs_doc == <<"/", "r", "/">> \o L_doc
Rel_doc == <<"s", "/">> \o L_doc

ResolveInputs == {L_doc, L_n, L_c, L_z, L_D, Abs_doc, Rel_doc}

\* The places where a document tree may hold each of these files.
TreePaths ==
  { { Slash(Slash(Slash(S_documents, S_pdf), S_doc), L_doc),
      Slash(Slash(S_documents, S_pdf), L_doc),
      Slash(Slash(S_pdfs, S_doc), L_doc),
      Slash(S_pdfs, L_doc) },
    { Slash(Slash(Slash(S_documents, S_txt), <<"n">>), L_n),
      Slash(Slash(S_documents, S_txt), L_n),
      Slash(Slash(S_pdfs, <<"n">>), L_n),
      Slash(S_pdfs, L_n) },
    { Slash(Slash(Slash(S_documents, S_pdf), L_c), L_c),
      Slash(Slash(Slash(S_documents, S_other), L_c), L_c),
      Slash(S_pdfs, L_c) },
    { Slash(Slash(Slash(S_documents, S_other), <<"z">>), L_z),
      Slash(S_pdfs, L_z) },
    { Slash(Slash(Slash(S_documents, S_pdf), <<"D">>), L_D),
      Slash(S_pdfs, L_D) } }

\* The trees ResolveDocumentPath runs on: empty, or one of the files in
\* one or in two of its places, holding the document <<7>>, in their
\* directories.
Trees ==
  { [files |-> [p \in S |-> <<7>>],
     dirs |-> UNION {Ancestors[Dir[p]] : p \in S}] :
      S \in {{}} \cup UNION {{{p, q} : p \in G, q \in G} : G \in TreePaths} }

\* The answers to the Downloads: the document <<7>>, or a 404.
ResolveEnvs ==
  { [fault |-> "none", status |-> 200, body |-> <<7>>, written |-> 0],
    [fault |-> "none", status |-> 404, body |-> <<>>, written |-> 0] }

InitResolve ==
  /\ \E t \in Trees : files = t.files /\ dirs = t.dirs
  /\ call = NoCall /\ ncalls = 0
  /\ ep = NoEp /\ rn = NoRun

\* Download(url), as run calls it for a URL.
ResolveFetch ==
  /\ ncalls < MaxCalls
  /\ \E url \in ResolveUrls, env \in ResolveEnvs :
       \E r \in {Download(url, env, files, dirs)} :
         /\ files' = r.files
         /\ dirs' = r.dirs
         /\ call' = [op |-> "Download", url |-> url,
                     filename |-> TargetOf(url).filename,
                     path |-> r.path, err |-> r.err]
  /\ ncalls' = ncalls + 1
  /\ UNCHANGED <<ep, rn>>

\* ResolveDocumentPath(input); after records the call made just before.
DoResolve ==
  /\ \E input \in ResolveInputs :
       call' = [op |-> "Resolve", input |-> input,
                path |-> ResolveDocumentPath(input, files, dirs),
                after |-> IF call.op = "Download" THEN call ELSE NoCall]
  /\ UNCHANGED <<ep, files, dirs, ncalls, rn>>

NextResolve == ResolveFetch \/ DoResolve

SpecResolve == InitResolve /\ [][NextResolve]_vars

----------------------------------------------------------------------------
(* Claims about ResolveDocumentPath, checked under SpecResolve.            *)

\* The input is a bare file name: not absolute, no separator.
IsBare(input) == \A k \in 1..Len(input) : input[k] # "/"

\* The path exists on disk, as a file or as a directory.
Exists(path) == path \in DOMAIN files \/ path \in dirs

\* The name without its extension (from its last dot on).
BaseNameOf(name) ==
  IF \E k \in 1..Len(name) : name[k] = "."
  THEN Sub(name, 1, LastIndexOf[name, "."] - 1)
  ELSE name

\* The candidates of a bare name in the order of the claim, with type tag
\* t: documents/t/b/input, documents/t/input and, for t = pdf,
\* pdfs/b/input, pdfs/input.
ClaimedCandidates(input, t) ==
  LET b == BaseNameOf(input)
  IN  << Slash(Slash(Slash(S_documents, t), b), input),
         Slash(Slash(S_documents, t), input) >>
        \o (IF t = S_pdf
            THEN <<Slash(Slash(S_pdfs, b), input), Slash(S_pdfs, input)>>
            ELSE <<>>)

C15_ExplicitPassThrough ==
  (call.op = "Resolve" /\ ~IsBare(call.input)) => call.path = call.input

\* s/doc.pdf was resolved while documents/pdf/doc/doc.pdf and pdfs/doc.pdf
\* existed.
C15_Witness ==
  /\ call.op = "Resolve" /\ call.input = Rel_doc /\ call.path = Rel_doc
  /\ DOMAIN files = { Slash(Slash(Slash(S_documents, S_pdf), S_doc), L_doc),
                      Slash(S_pdfs, L_doc) }

\* C16 (legacy layout is PDF-only), as claimed: for a bare file name whose
\* extension is not .pdf (case-insensitive), an unmatched or missing
\* extension included, ResolveDocumentPath never returns a path under
\* pdfs/, even when a file of that name exists there.
C16_LegacyIsPdfOnly ==
  (call.op = "Resolve" /\ IsBare(call.input)
     /\ ToLower[Ext[call.input]] # S_dotpdf) =>
    ~HasPrefix[call.path, S_pdfs \o <<"/">>]

\* C17 (fetcher and resolver share one layout), as claimed: when a
\* Download returned a path p with no error or with ErrFileExists, p is
\* documents/{tag}/{baseName}/{filename}, and ResolveDocumentPath called
\* next on the bare filename returns exactly p, whatever the extension.
C17_SharedLayout ==
  /\ (call.op = "Download" /\ call.err \in {"nil", "ErrFileExists"}) =>
        call.path = Slash(Slash(Slash(S_documents, GetFileType[call.filename]),
                                BaseNameOf(call.filename)), call.filename)
  /\ (call.op = "Resolve" /\ call.after.op = "Download"
        /\ call.after.err \in {"nil", "ErrFileExists"}
        /\ call.input = call.after.filename) =>
        call.path = call.after.path

----------------------------------------------------------------------------
(* More claims about Download, checked under SpecDl.                       *)

\* C18 (status handling), as claimed: a Download that got a response
\* rejects it because of its status exactly when the status is not one of
\* 200..299; with every 2xx status it goes on to the directories, the
\* body, the digest and the write decision.
C18_StatusHandling ==
  (call.op = "Download" /\ call.env.fault \notin {"request", "net"}) =>
    /\ call.err = "bad status" <=> call.env.status \notin 200..299
    /\ call.env.status \in 200..299 => Len(call.ops) > 0

----------------------------------------------------------------------------
(* Claims about the work list of run, checked under SpecRun.               *)

\* The work list of run has been determined, or run has given up on it.
WorkListSettled == rn.pc \in {"loop", "extract", "save", "done"}

\* C19 (config priority): from a loaded config the work list is the
\* expansion of the pattern when one is set (pattern, else pdf_pattern),
\* otherwise the list of URLs when it is not empty (urls, else pdf_urls),
\* otherwise the single URL (url, else pdf_url): a pattern makes the URLs
\* ignored, and a new field goes before its legacy counterpart.
C19_ConfigPriority ==
  (rn.pc # "none" /\ rn.cfgOk /\ WorkListSettled) =>
    LET c == rn.cfg
        pat == IF c.Pattern # <<>> THEN c.Pattern ELSE c.PDFPattern
        urls == IF c.URLs # <<>> THEN c.URLs ELSE c.PDFURLs
        url == IF c.URL # <<>> THEN c.URL ELSE c.PDFURL
    IN  IF pat # <<>>
        THEN /\ ep.pc = "done" /\ ep.pattern = pat
             /\ rn.inputs = ep.results
        ELSE IF urls # <<>> THEN rn.inputs = urls
             ELSE (url # <<>> => rn.inputs = <<url>>)

\* A config with pattern, pdf_pattern and url: the work list is the
\* expansion of pattern.
C19_Witness ==
  /\ rn.pc = "loop" /\ rn.cfgOk
  /\ rn.cfg.Pattern = P_ok /\ rn.cfg.PDFPattern = P_rev /\ rn.cfg.URL = Url_b
  /\ rn.inputs = <<Url_1, Url_2>>

\* C20 (command-line arguments versus config), as claimed: when one or
\* more command-line arguments are provided the work list of run is
\* exactly those arguments; the inputs of the config file are used only
\* when there is no argument.
C20_ArgumentsFirst ==
  (rn.pc # "none" /\ WorkListSettled /\ rn.args # <<>>) => rn.inputs = rn.args

----------------------------------------------------------------------------
(* Claims about the side effects of Download, checked under SpecDl.        *)

\* Number of occurrences of op among the filesystem operations of the
\* last call.
OpCount(op) == Cardinality({k \in 1..Len(call.ops) : call.ops[k] = op})

\* C21 (fetch side effects are confined to the target): a Download leaves
\* every file other than the one at its target path as it was, neither
\* created, changed nor deleted, and removes no directory; it creates or
\* truncates at most one file, its target; and it deletes nothing but its
\* own target file, once, after its write failed.
C21_ConfinedSideEffects ==
  call.op = "Download" =>
    /\ \A p \in (DOMAIN call.before \cup DOMAIN files) \ {call.target} :
         /\ p \in DOMAIN call.before /\ p \in DOMAIN files
         /\ files[p] = call.before[p]
    /\ call.dirsBefore \subseteq dirs
    /\ OpCount("Create") <= 1 /\ OpCount("Write") <= 1 /\ OpCount("Remove") <= 1
    /\ (OpCount("Remove") = 1 \/
          (call.target \in DOMAIN call.before /\ call.target \notin DOMAIN files)) =>
         /\ call.env.fault = "write"
         /\ call.err = "failed to save file"
         /\ call.ops[Len(call.ops)] = "Remove"
         /\ call.ops[Len(call.ops) - 1] = "Write"

\* A Download replaced the file at its target while the file of an
\* earlier Download was at another path.
C21_Witness ==
  /\ call.op = "Download" /\ call.err = "nil"
  /\ call.target \in DOMAIN files
  /\ \E p \in DOMAIN call.before : p # call.target /\ call.before[p] # <<>>

\* C30 (early fetch failures leave the filesystem untouched): a Download
\* that fails on the creation of the request, on the network or on the
\* status performs no filesystem operation: files and directories are
\* those of before the call; one that fails on reading the body leaves
\* the files as they were, and the only new directories are its target's
\* directory and the directories above it.
C30_EarlyFailureFrame ==
  call.op = "Download" =>
    /\ (call.env.fault \in {"request", "net"} \/ call.env.status # StatusOK) =>
         /\ call.err \in {"failed to create request", "failed to download", "bad status"}
         /\ call.path = <<>>
         /\ call.ops = <<>>
         /\ files = call.before /\ dirs = call.dirsBefore
    /\ call.err = "failed to read response body" =>
         /\ call.path = <<>>
         /\ files = call.before
         /\ \A k \in 1..Len(call.ops) : call.ops[k] = "MkdirAll"
         /\ \A q \in dirs \ call.dirsBefore :
              HasPrefix[call.target, q \o <<"/">>]

\* The read of the body failed after the target's directories had been
\* created, another document being on disk.
C30_Witness ==
  /\ call.op = "Download" /\ call.err = "failed to read response body"
  /\ dirs # call.dirsBefore
  /\ call.before # NoFiles /\ files = call.before

----------------------------------------------------------------------------
(* Claims about the numbers of a marker, checked under SpecExpand.         *)

\* s without its leading zeros (the last digit is kept).
StripZeros(s) ==
  LET nz == {k \in 1..Len(s) : s[k] # "0"}
  IN  IF nz = {} THEN <<"0">>
      ELSE Sub(s, CHOOSE k \in nz : \A j \in nz : k <= j, Len(s))

\* The string of digits s denotes a number greater than the largest int:
\* it has more digits, or as many and a greater digit at the first
\* position where they differ.
BeyondInt(s) ==
  LET t == StripZeros(s)
      big == ItoaNat[MaxInt]
  IN  \/ Len(t) > Len(big)
      \/ /\ Len(t) = Len(big)
         /\ \E k \in 1..Len(t) :
              /\ \A j \in 1..(k - 1) : t[j] = big[j]
              /\ DigitVal[t[k]] > DigitVal[big[k]]

\* C24 (unparseable marker numbers): when the first marker matches and
\* its start or its end is a literal beyond the int range, the call
\* returns at once an error and no string: neither the pattern as a
\* literal nor the strings of a truncated range.
C24_UnparseableNumbers ==
  ep.pc \notin {"none", "call"} =>
    LET m == FindStringSubmatch[ep.pattern]
    IN  (m.ok /\ (BeyondInt(m.startStr) \/ BeyondInt(m.endStr))) =>
          /\ ep.pc = "done"
          /\ ep.err # "nil"
          /\ ep.results = <<>>

\* The call returned an error for a marker whose start, 1, parses and
\* whose end is beyond the int range.
C24_Witness ==
  /\ ep.pc = "done" /\ ep.err = "invalid pattern numbers" /\ ep.results = <<>>
  /\ FindStringSubmatch[ep.pattern].ok
  /\ FindStringSubmatch[ep.pattern].startStr = <<"1">>
  /\ BeyondInt(FindStringSubmatch[ep.pattern].endStr)

\* C29 (expansion terminates at the integer boundary), as claimed: for a
\* first marker {A-B} with A <= B, B the largest int included, the loop
\* counter stays within A..B or is B + 1 when the loop ends, never a
\* number below A, the strings appended are never more than B - A + 1,
\* and each holds a number of A..B, so none holds a minus sign the
\* pattern does not hold.
C29_TerminatesAtBoundary ==
  (ep.pc \in {"loop", "done"} /\ FirstMarkerInOrder) =>
    LET m == FindStringSubmatch[ep.pattern]
        A == Atoi[m.startStr].val
        B == Atoi[m.endStr].val
        pre == Sub(ep.pattern, 1, m.from - 1)
    IN  /\ ep.i >= A
        /\ ep.i - 1 <= B
        /\ Len(ep.results) - 1 <= B - A
        /\ \A k \in 1..Len(ep.results) : ep.results[k][Len(pre) + 1] # "-"


----------------------------------------------------------------------------
(* C28: the counts of the summary.                                         *)

\* C28: at the end of every multi-input run the succeeded count plus the
\* failed count is the number of inputs processed, every input having
\* incremented exactly one of the two counters once, so that the succeeded
\* count never exceeds the number of inputs.
C28_CountsPartition ==
  (rn.pc = "done" /\ Len(rn.inputs) > 1 /\ rn.summary # <<>>) =>
    /\ rn.successCount + rn.errorCount = Len(rn.inputs)
    /\ rn.successCount <= Len(rn.inputs)


----------------------------------------------------------------------------
(* SpecNames: the two GetFileType functions and the filename derivation of *)
(* Download, applied to one string.                                        *)

\* The strings: a prefix (none, a host, a directory with a dot), a last
\* segment, and a query (none, a plain one, one with a '/' in it).
NameInputs ==
  LET segs == {<<"a", ".", "p", "d", "f">>,
               <<"a", ".", "P", "D", "F">>,
               <<"b", ".", "D", "o", "c", "x">>,
               <<"c", ".", "d", "o", "c">>,
               <<"r", ".", "r", "t", "f">>,
               <<"n", ".", "t", "x", "t">>,
               <<"o", ".", "O", "D", "T">>,
               <<"n", "o", "t", "e", "s">>,
               <<"x", ".", "z", "i", "p">>,
               <<"a", ".", "p", "d", "f", ".", "b", "a", "k">>,
               <<>>,
               <<"d", "o", "w", "n", "l", "o", "a", "d", "e", "d">>,
               <<"a", "%", "2", "0", "b", ".", "p", "d", "f">>,
               <<"a", "%", "2", "F", "b">>,
               <<"a", ":", "b", "*", ".", "t", "x", "t">>,
               <<".", "p", "d", "f">>,
               <<"a", ".">>,
               <<"<", "b", ">", "|", "\"", "\\">>}
      pres == {<<>>, <<"h", "t", "t", "p", ":", "/", "/", "h", "/">>, <<"d", ".", "x", "/">>}
      qs == {<<>>, <<"?", "v", "=", "1">>, <<"?", "p", "=", "/", "z", ".", "t", "x", "t">>}
  IN  {p \o sg \o q : p \in pres, sg \in segs, q \in qs}

NoName == [op |-> "Name", pc |-> "in", input |-> <<>>, dl |-> <<>>, pu |-> <<>>,
           filename |-> <<>>, target |-> TargetOfUrl(<<>>)]

InitNames ==
  /\ call \in {[NoName EXCEPT !.input = s] : s \in NameInputs}
  /\ ep = NoEp /\ files = NoFiles /\ dirs = {} /\ ncalls = 0 /\ rn = NoRun

\* DoGetFileType that gives the resolver the downloader's default.
DoGetFileType_SameDefault ==
  /\ call.op = "Name" /\ call.pc = "in"
  /\ call' = [call EXCEPT !.pc = "typed",
                          !.dl = GetFileType[call.input],
                          !.pu = GetFileType[call.input]]
  /\ UNCHANGED <<ep, files, dirs, ncalls, rn>>

\* downloader.GetFileType and pathutil.GetFileType of the string.
DoGetFileType ==
  /\ call.op = "Name" /\ call.pc = "in"
  /\ call' = [call EXCEPT !.pc = "typed",
                          !.dl = GetFileType[call.input],
                          !.pu = PathutilGetFileType[call.input]]
  /\ UNCHANGED <<ep, files, dirs, ncalls, rn>>

\* DoFilename that takes the last segment as it is.
DoFilename_RawSegment ==
  /\ call.op = "Name" /\ call.pc = "in"
  /\ \E parts \in {Split[call.input]} :
       call' = [call EXCEPT !.pc = "named",
                            !.filename = parts[Len(parts)],
                            !.target = TargetOfUrl(call.input)]
  /\ UNCHANGED <<ep, files, dirs, ncalls, rn>>

\* pattern.go:188-200: extractFilenameFromURL of the string as a URL, and
\* the name and type Download goes on with.
DoFilename ==
  /\ call.op = "Name" /\ call.pc = "in"
  /\ call' = [call EXCEPT !.pc = "named",
                          !.filename = extractFilenameFromURL[call.input],
                          !.target = TargetOfUrl(call.input)]
  /\ UNCHANGED <<ep, files, dirs, ncalls, rn>>

NextNames == DoGetFileType \/ DoFilename

SpecNames == InitNames /\ [][NextNames]_vars

----------------------------------------------------------------------------
(* C26, C23: file types and derived filenames.                             *)

\* The name ends in a dot and the characters of t in either case, and that
\* dot is the last dot of the last element.
HasExtCI(name, t) ==
  LET k == Len(name) - Len(t)
  IN  /\ k >= 1 /\ name[k] = "."
      /\ \A j \in 1..Len(t) : name[k + j] \notin {".", "/"}
                              /\ LowerOf[name[k + j]] = t[j]

Forbidden == {"<", ">", ":", "\"", "|", "?", "*", "\\", "%", "/"}

\* The URL up to its first '?', and what follows the last '/' of that.
UrlSegment(url) ==
  LET cut == IF \E k \in 1..Len(url) : url[k] = "?"
             THEN SubSeq(url, 1, (CHOOSE k \in 1..Len(url) :
                                    url[k] = "?" /\ \A j \in 1..(k - 1) : url[j] # "?") - 1)
             ELSE url
      from == IF \E k \in 1..Len(cut) : cut[k] = "/"
              THEN 1 + CHOOSE k \in 1..Len(cut) :
                         cut[k] = "/" /\ \A j \in (k + 1)..Len(cut) : cut[j] # "/"
              ELSE 1
  IN  SubSeq(cut, from, Len(cut))

\* C23: the derived filename comes from the last '/'-separated segment of
\* the URL cut at its first '?': it is that segment when the segment has
\* none of the characters of Forbidden other than '/' and otherwise is made of its
\* characters and '_', it has none of these characters and no '/', and
\* when the segment is empty Download goes on with downloaded.pdf and the
\* type pdf.
C23_FilenameDerivation ==
  (call.op = "Name" /\ call.pc = "named") =>
    LET seg == UrlSegment(call.input)
    IN  /\ \A k \in 1..Len(call.filename) :
             /\ call.filename[k] \notin Forbidden
             /\ call.filename[k] = "_" \/ \E j \in 1..Len(seg) : seg[j] = call.filename[k]
        /\ Len(call.filename) <= Len(seg)
        /\ (\A j \in 1..Len(seg) : seg[j] \notin Forbidden) => call.filename = seg
        /\ (call.filename = <<>>) = (seg = <<>>)
        /\ seg = <<>> => /\ call.target.filename = S_downloaded \o <<".">> \o S_pdf
                         /\ call.target.fileType = S_pdf
        /\ (seg # <<>> /\ call.filename # S_downloaded) =>
             call.target.filename = call.filename

C23_Witness ==
  /\ call.op = "Name" /\ call.pc = "named"
  /\ \E k \in 1..Len(call.input) : call.input[k] = "?"
  /\ UrlSegment(call.input) = <<>>
  /\ call.filename = <<>>
  /\ call.target.filename = S_downloaded \o <<".">> \o S_pdf
  /\ call.target.fileType = S_pdf


----------------------------------------------------------------------------
(* SpecExtract: ExtractText and SaveExtractedText of extractor.New(),      *)
(* called one after the other on a directory with at most one document.    *)

\* The paths of the documents: in the directory d or in the working
\* directory, with the extension in lower and in upper case, with two
\* extensions, with another extension and with none; and the directory.
DocPaths == {<<"d", "/", "a", ".", "p", "d", "f">>,
             <<"d", "/", "B", ".", "P", "D", "F">>,
             <<"d", "/", "a", ".", "P", "D", "F", ".", "p", "d", "f">>,
             <<"d", "/", "n", ".", "t", "x", "t">>,
             <<"d", "/", "n", "o", "t", "e", "s">>,
             <<"a", ".", "p", "d", "f">>}
DocDir == <<"d">>

\* What a document holds: see PdfOpen.
DocContents == {<<>>, <<1>>, <<0>>, <<7>>, <<7, 0, 8>>}

InitExtract ==
  /\ files \in {NoFiles} \cup {WriteFile(NoFiles, p, c) : p \in DocPaths, c \in DocContents}
  /\ dirs = {DocDir}
  /\ call = NoCall /\ ncalls = 0 /\ ep = NoEp /\ rn = NoRun

\* extractor.go:38-41.
DoExtractText ==
  /\ ncalls < MaxCalls
  /\ \E filePath \in DocPaths \cup {DocDir} :
       \E x \in {ExtractText(filePath, files, dirs)} :
         call' = [op |-> "ExtractText", filePath |-> filePath,
                  text |-> x.text, err |-> x.err, before |-> files]
  /\ ncalls' = ncalls + 1
  /\ UNCHANGED <<ep, files, dirs, rn>>

\* extractor.go:117-163: the text is the one ExtractText returned for the
\* document when there is one, or any other text.
DoSaveExtractedText ==
  /\ ncalls < MaxCalls
  /\ \E filePath \in DocPaths \cup {DocDir}, fault \in WriteFaults :
       \E text \in {<<9>>, ExtractText(filePath, files, dirs).text} :
         \E sv \in {SaveExtractedText(filePath, text, fault, files, dirs)} :
           /\ files' = sv.files
           /\ call' = [op |-> "SaveExtractedText", filePath |-> filePath,
                        text |-> text, fault |-> fault, path |-> sv.path,
                        err |-> sv.err, before |-> files]
  /\ ncalls' = ncalls + 1
  /\ UNCHANGED <<ep, dirs, rn>>

NextExtract == DoExtractText \/ DoSaveExtractedText

SpecExtract == InitExtract /\ [][NextExtract]_vars

----------------------------------------------------------------------------
(* C27, C22: the outcomes of the extractor.                                *)

\* C27: ExtractText returns an error or a non-empty text, never a success
\* with an empty text; it returns an error when the path does not exist,
\* when the extension of the file is not .pdf in either case, when the
\* document has no pages and when no page yields any text.
C27_ExtractionOutcomes ==
  call.op = "ExtractText" =>
    LET there == call.filePath \in DOMAIN call.before
        content == call.before[call.filePath]
    IN  /\ call.err = "nil" => call.text # <<>>
        /\ (~there /\ call.filePath \notin dirs) => call.err # "nil"
        /\ ~HasExtCI(call.filePath, S_pdf) => call.err # "nil"
        /\ (there /\ content = <<1>>) => call.err # "nil"
        /\ (there /\ \A k \in 1..Len(content) : content[k] = 0) => call.err # "nil"

C27_Witness ==
  /\ call.op = "ExtractText" /\ call.err = "nil" /\ call.text # <<>>
  /\ call.filePath \in DOMAIN call.before
  /\ \E k \in 1..Len(call.before[call.filePath]) : call.before[call.filePath][k] = 0
  /\ ToLower[call.filePath] # call.filePath

\* The sibling of the document named after its base name without the
\* extension, with the suffix.
SiblingOf(filePath, suffix) ==
  LET slash == LastIndexOf[filePath, "/"]
      dot == LastIndexOf[filePath, "."]
      stem == IF dot > slash THEN SubSeq(filePath, 1, dot - 1) ELSE filePath
  IN  stem \o suffix

\* C22: on success SaveExtractedText of the default extractor writes exactly
\* one file, in the directory of the document and named after the base name
\* of the document without its extension followed by .extracted.json,
\* returns the path of that file and leaves the document unchanged.
C22_OutputPlacement ==
  (call.op = "SaveExtractedText" /\ call.err = "nil") =>
    LET out == SiblingOf(call.filePath, S_extracted_json)
    IN  /\ call.path = out
        /\ out \in DOMAIN files
        /\ DOMAIN files = DOMAIN call.before \cup {out}
        /\ \A p \in DOMAIN call.before : p # out => files[p] = call.before[p]
        /\ call.filePath \in DOMAIN call.before =>
             files[call.filePath] = call.before[call.filePath]


----------------------------------------------------------------------------
(* SpecConc: MaxCalls calls of Download for the same target path, each     *)
(* having read its body, taking their filesystem steps (pattern.go:234-    *)
(* 263) one at a time.  In the mode "sequential" a call starts when no     *)
(* other call is under way, as in the loop of run; in the mode             *)
(* "interleaved" the steps of the calls are interleaved freely.  target is *)
(* the path the calls derived from their URL.                              *)

Procs == 1..MaxCalls

\* A call about to take its first step: the body it downloaded, whether
\* its write fails, what it returned (nothing yet), whether the file at the
\* target path was a complete copy of its body when it returned, and
\* whether the file it has open is still the one at the target path.
NoProc(body, fault) ==
  [pc |-> "stat", body |-> body, fault |-> fault, ret |-> "none",
   intact |-> FALSE, linked |-> FALSE]

InitConc ==
  /\ \E t \in {TargetOf(Url_a)} :
       /\ \E mode \in {"sequential", "interleaved"} :
            \E b \in [Procs -> {<<7, 8>>, <<9>>}], ft \in [Procs -> {"none", "write"}] :
              call = [op |-> "Downloads", mode |-> mode, target |-> t.filePath,
                      procs |-> [p \in Procs |-> NoProc(b[p], ft[p])]]
       /\ dirs = MkdirAll({}, t.docSubDir)
       /\ files \in {NoFiles} \cup
                    {WriteFile(NoFiles, t.filePath, c) : c \in {<<7, 8>>, <<9>>}}
  /\ ncalls = 0 /\ ep = NoEp /\ rn = NoRun

\* MayStep that lets a call start while another one is under way.
MayStep_NoExclusion(p) == TRUE

\* part_000:248-318: run calls Download for one input after the other, so
\* a call takes a step only when no other call is under way.
MayStep(p) ==
  \/ call.mode = "interleaved"
  \/ \A q \in Procs \ {p} : call.procs[q].pc \in {"stat", "done"}

\* A write of b at offset 0 of a file holding c.
Overlay(b, c) == b \o Sub(c, Len(b) + 1, Len(c))

\* The call returns ret; intact records whether the file at the target
\* path is a complete copy of its body in the filesystem f it returns on.
Returned(pr, ret, f) ==
  [pr EXCEPT !.pc = "done", !.ret = ret,
             !.intact = /\ call.target \in DOMAIN f
                        /\ f[call.target] = pr.body]

\* pattern.go:234: os.Stat(filePath).
StepStat(p) ==
  /\ call.op = "Downloads" /\ call.procs[p].pc = "stat" /\ MayStep(p)
  /\ call' = [call EXCEPT !.procs[p].pc =
                IF call.target \in DOMAIN files THEN "digest" ELSE "create"]
  /\ UNCHANGED <<ep, files, dirs, ncalls, rn>>

\* pattern.go:236-246: computeFileChecksum(filePath) and the comparison.
StepDigest(p) ==
  /\ call.op = "Downloads" /\ call.procs[p].pc = "digest" /\ MayStep(p)
  /\ call' = [call EXCEPT !.procs[p] =
                IF call.target \notin DOMAIN files
                THEN Returned(@, "warning: failed to compute checksum", files)
                ELSE IF files[call.target] = @.body
                     THEN Returned(@, "ErrFileExists", files)
                     ELSE [@ EXCEPT !.pc = "create"]]
  /\ UNCHANGED <<ep, files, dirs, ncalls, rn>>

\* pattern.go:250: os.Create(filePath) creates the file or truncates it.
StepCreate(p) ==
  /\ call.op = "Downloads" /\ call.procs[p].pc = "create" /\ MayStep(p)
  /\ files' = WriteFile(files, call.target, <<>>)
  /\ call' = [call EXCEPT !.procs[p].pc = "write", !.procs[p].linked = TRUE]
  /\ UNCHANGED <<ep, dirs, ncalls, rn>>

\* pattern.go:257-263: outFile.Write(bodyBytes), at the start of the file
\* that was opened, which may no longer be the one at the target path.
StepWrite(p) ==
  /\ call.op = "Downloads" /\ call.procs[p].pc = "write" /\ MayStep(p)
  /\ IF call.procs[p].fault = "write"
     THEN /\ call' = [call EXCEPT !.procs[p].pc = "remove"]
          /\ files' = files
     ELSE \E f \in {IF call.procs[p].linked
                    THEN WriteFile(files, call.target,
                                   Overlay(call.procs[p].body,
                                           files[call.target]))
                    ELSE files} :
            /\ files' = f
            /\ call' = [call EXCEPT !.procs[p] = Returned(@, "nil", f)]
  /\ UNCHANGED <<ep, dirs, ncalls, rn>>

\* pattern.go:259-260: os.Remove(filePath) after a failed write; the calls
\* that have the file open keep it, off the target path.
StepRemove(p) ==
  /\ call.op = "Downloads" /\ call.procs[p].pc = "remove" /\ MayStep(p)
  /\ \E f \in {RemoveFile(files, call.target)} :
       /\ files' = f
       /\ call' = [call EXCEPT !.procs =
                     [q \in Procs |->
                        IF q = p THEN Returned(@[q], "failed to save file", f)
                        ELSE [@[q] EXCEPT !.linked = FALSE]]]
  /\ UNCHANGED <<ep, dirs, ncalls, rn>>

NextConc ==
  \E p \in Procs :
    StepStat(p) \/ StepDigest(p) \/ StepCreate(p) \/ StepWrite(p) \/ StepRemove(p)

SpecConc == InitConc /\ [][NextConc]_vars

----------------------------------------------------------------------------
(* C25: the check-then-write of Download needs mutual exclusion.           *)

\* A call has returned the path with nil or ErrFileExists while the file
\* at the path was missing or no complete copy of the bytes it compared or
\* wrote.
BrokenReturn ==
  \E p \in Procs :
    /\ call.procs[p].ret \in {"nil", "ErrFileExists"}
    /\ ~call.procs[p].intact

\* C25: when the calls of Download for one target path run strictly one
\* after the other, no call returns the path with nil or ErrFileExists
\* while the file at the path is missing or is no complete copy of the
\* bytes the call compared or wrote.
C25_SequentialIsSafe ==
  (call.op = "Downloads" /\ call.mode = "sequential") => ~BrokenReturn

\* With the filesystem steps of two calls interleaved, a call has returned
\* the path with nil while the file holds a mix of two bodies or is gone.
C25_Witness ==
  /\ call.op = "Downloads" /\ call.mode = "interleaved"
  /\ \E p \in Procs :
       /\ call.procs[p].ret = "nil" /\ ~call.procs[p].intact
       /\ call.procs[p].fault = "none"
       /\ call.target \in DOMAIN files
       /\ files[call.target] # call.procs[p].body
       /\ \A q \in Procs : call.procs[q].fault = "none"

====
